---- MODULE Spec2Model ----
(***************************************************************************)
(* Model of the request orchestrator of the uns3 S3 client                 *)
(* (src/src/client.ts): one public call on one S3Client instance, from the  *)
(* synchronous validation of its parameters through the retry loop of      *)
(* S3Client.perform to the value returned or the error raised, with a      *)
(* second call on the same instance where the shared clock-skew estimate   *)
(* matters.  The functions the orchestrator relies on (the SigV4 signer of *)
(* src/src/core/signer.ts, the URL builder, the URI encoder, the reader of *)
(* error bodies) are operators; each has a specification of its own in     *)
(* which op names the function, params is its input and result its output. *)
(*                                                                         *)
(* Time is in milliseconds, as Date.now() is.  JavaScript numbers that the *)
(* code must validate are records [k, v]: k = "int" is the integer v,      *)
(* k = "half" is v + 0.5, k = "nan" is NaN, k = "inf" is +/-Infinity.      *)
(* Strings whose characters the code inspects (ETags, keys, bucket names,  *)
(* query parameters) are sequences of one-character strings.               *)
(***************************************************************************)
EXTENDS Integers, Sequences, FiniteSets, TLC

VARIABLES
    cfg,          \* S3ClientConfig as normalised by the constructor
    op,           \* the public method called
    params,       \* the call's parameters
    signal,       \* the caller's AbortSignal (at: where the call was when it aborted)
    pc,           \* where the call is
    ctx,          \* PerformContext built by the public method
    attempt,      \* perform: attempt
    lastError,    \* perform: lastError
    sent,         \* requests handed to the transport, in order
    delayMs,      \* perform: delayMs of the pending backoff wait
    result,       \* what the call returned or raised
    clockSkewMs,  \* S3Client.clockSkewMs
    now,          \* Date.now()
    decision,     \* what the retry controller decided for the last failed attempt
    lastResponse, \* Date header of the last response and Date.now() when it was processed
    peer          \* a second call running concurrently on the same S3Client

vars == <<cfg, op, params, signal, pc, ctx, attempt, lastError, sent, delayMs,
          result, clockSkewMs, now, decision, lastResponse, peer>>

-----------------------------------------------------------------------------
(* Bounds of the model *)

MaxAttemptsBound == 3
MaxParts == 2
MaxKeyLen == 3
MaxParams == 3
MaxBucketLen == 4
MaxSignCalls == 2
MaxChunks == 3
MaxPeerAttempts == 2
MaxEtagLen == 4
MaxXmlLen == 4

(* Program constants *)

MAX_INLINE_CHECKSUM_BYTES == 16777216
MaxPartNumber == 10000
MsPerSecond == 1000
ErrorBodyLimit == 65536
MAX_PRESIGN_EXPIRY == 604800

-----------------------------------------------------------------------------
(* Public methods, their HTTP method and their accepted statuses *)

Ops == {"get", "head", "put", "del", "list", "initiateMultipart",
        "uploadPart", "completeMultipart", "abortMultipart"}

OpMethod(o) ==
    CASE o \in {"get", "list"} -> "GET"
      [] o = "head" -> "HEAD"
      [] o \in {"put", "uploadPart"} -> "PUT"
      [] o \in {"initiateMultipart", "completeMultipart"} -> "POST"
      [] o \in {"del", "abortMultipart"} -> "DELETE"

\* a variant in which get and head accept 200 only
ExpectedStatusWithout304(o) ==
    CASE o \in {"get", "head"} -> {200}
      [] o = "put" -> {200, 412}
      [] o = "del" -> {200, 204}
      [] o = "abortMultipart" -> {200, 202, 204}
      [] o = "completeMultipart" -> {200, 412}
      [] OTHER -> {200}

ExpectedStatus(o) ==
    CASE o \in {"get", "head"} -> {200, 304}
      [] o = "put" -> {200, 412}
      [] o = "del" -> {200, 204}
      [] o = "list" -> {200}
      [] o = "initiateMultipart" -> {200}
      [] o = "uploadPart" -> {200}
      [] o = "completeMultipart" -> {200, 412}
      [] o = "abortMultipart" -> {200, 202, 204}

matchesExpected(status, expected) == status \in expected

\* a variant that also lets PUT be retried
isRetryEligibleMethodWithPut(method) ==
    method = "GET" \/ method = "HEAD" \/ method = "PUT"

isRetryEligibleMethod(method) == method = "GET" \/ method = "HEAD"

isRetriableStatus(status) ==
    IF status = 429 THEN TRUE
    ELSE status >= 500 /\ status # 501 /\ status # 505

-----------------------------------------------------------------------------
(* Error codes.  "" stands for an absent or empty <Code> element.          *)

Codes == {"", "SlowDown", "Throttling", "ThrottlingException", "RequestTimeout",
          "RequestTimeoutException", "RequestTimeTooSkewed", "InternalError",
          "ServiceUnavailable", "ServiceUnavailableException", "GatewayTimeout",
          "HTTP503", "AccessDenied", "NoSuchKey", "slowdown", " InternalError "}

\* code.trim().toUpperCase() on the codes of the model
TrimUpper(code) ==
    CASE code \in {"SlowDown", "slowdown"} -> "SLOWDOWN"
      [] code = "Throttling" -> "THROTTLING"
      [] code = "ThrottlingException" -> "THROTTLINGEXCEPTION"
      [] code = "RequestTimeout" -> "REQUESTTIMEOUT"
      [] code = "RequestTimeoutException" -> "REQUESTTIMEOUTEXCEPTION"
      [] code = "RequestTimeTooSkewed" -> "REQUESTTIMETOOSKEWED"
      [] code \in {"InternalError", " InternalError "} -> "INTERNALERROR"
      [] code = "ServiceUnavailable" -> "SERVICEUNAVAILABLE"
      [] code = "ServiceUnavailableException" -> "SERVICEUNAVAILABLEEXCEPTION"
      [] code = "GatewayTimeout" -> "GATEWAYTIMEOUT"
      [] code = "HTTP503" -> "HTTP503"
      [] code = "AccessDenied" -> "ACCESSDENIED"
      [] code = "NoSuchKey" -> "NOSUCHKEY"
      [] OTHER -> code

\* a variant of the allow-list without the REQUESTTIMEOUT entries
RETRIABLE_ERROR_CODES_WithoutTimeout ==
    {"SLOWDOWN", "THROTTLING", "THROTTLINGEXCEPTION", "REQUESTTIMETOOSKEWED",
     "INTERNALERROR", "SERVICEUNAVAILABLE", "SERVICEUNAVAILABLEEXCEPTION",
     "HTTP503", "GATEWAYTIMEOUT"}

RETRIABLE_ERROR_CODES ==
    {"SLOWDOWN", "THROTTLING", "THROTTLINGEXCEPTION", "REQUESTTIMEOUT",
     "REQUESTTIMEOUTEXCEPTION", "REQUESTTIMETOOSKEWED", "INTERNALERROR",
     "SERVICEUNAVAILABLE", "SERVICEUNAVAILABLEEXCEPTION", "HTTP503",
     "GATEWAYTIMEOUT"}

determineErrorRetriable(status, code) ==
    IF status = 429 THEN TRUE
    ELSE IF status >= 500 /\ status # 501 /\ status # 505 THEN TRUE
    ELSE IF code = "" THEN FALSE
    ELSE TrimUpper(code) \in RETRIABLE_ERROR_CODES

-----------------------------------------------------------------------------
(* Errors.  kind "S3Error" is a structured error decoded from a response,  *)
(* "transport" a value thrown by the transport, "abort" the rejection of a *)
(* backoff wait, "validation" an error raised before perform is entered.   *)
(* retryAfter is in half-milliseconds (2000 is one second), so that        *)
(* Math.ceil(retryAfter * 1000) has something to round.                    *)
(* name is Error.name; cancelled tells that the failure is the caller's    *)
(* signal being aborted; attempt is the attempt that produced the error.   *)

\* the retryAfter of an error whose response carried no usable retry-after header
NoRetryAfter == 0 - 1

NoError ==
    [kind |-> "none", name |-> "", status |-> 0, code |-> "", retriable |-> FALSE,
     retryAfter |-> NoRetryAfter, cancelled |-> FALSE, attempt |-> 0]

TransportError(name, cancelled, n) ==
    [kind |-> "transport", name |-> name, status |-> 0, code |-> "",
     retriable |-> FALSE, retryAfter |-> NoRetryAfter, cancelled |-> cancelled,
     attempt |-> n]

ValidationError(name) ==
    [kind |-> "validation", name |-> name, status |-> 0, code |-> "",
     retriable |-> FALSE, retryAfter |-> NoRetryAfter, cancelled |-> FALSE,
     attempt |-> 0]

\* createError: the S3Error decoded from a response that was not accepted
createError(response, n) ==
    [kind |-> "S3Error", name |-> "S3Error", status |-> response.status,
     code |-> response.code,
     retriable |-> determineErrorRetriable(response.status, response.code),
     retryAfter |-> response.retryAfter, cancelled |-> FALSE, attempt |-> n]

isAbortError(error) == error.kind # "none" /\ error.name = "AbortError"

\* ensureError: a thrown value that is no Error instance (name "") is wrapped
ensureError(error) ==
    IF error.name = "" THEN [error EXCEPT !.name = "Error"] ELSE error

-----------------------------------------------------------------------------
(* Retry controller *)

Verdicts == {"true", "false", "throw"}

\* S3Client.shouldRetry; verdict is what retryConfig.retriable returns (or that
\* it throws) if this evaluation calls it
shouldRetry(method, hasResponse, error, n, maxAttempts, verdict) ==
    IF n >= maxAttempts THEN FALSE
    ELSE IF cfg.custom THEN verdict = "true"
    ELSE IF ~isRetryEligibleMethod(method) THEN FALSE
    ELSE IF hasResponse
         THEN IF error.kind = "S3Error" /\ error.retriable THEN TRUE
              ELSE isRetriableStatus(error.status)
    ELSE IF error.kind = "S3Error" THEN error.retriable
    ELSE TRUE

RECURSIVE Pow2(_)
Pow2(e) == IF e <= 0 THEN 1 ELSE 2 * Pow2(e - 1)

Max(a, b) == IF a >= b THEN a ELSE b

\* a variant with jitter over the whole of 0..raw
computeBackoffDelayFromZero(n) ==
    LET base == cfg.baseDelayMs
        raw == base * Pow2(Max(0, n - 1))
    IN IF base <= 0 THEN {0}
       ELSE IF cfg.jitter = FALSE THEN {raw}
       ELSE 0..raw

\* S3Client.computeBackoffDelay: the values it can return for an attempt
computeBackoffDelay(n) ==
    LET base == cfg.baseDelayMs
        raw == base * Pow2(Max(0, n - 1))
        min == raw \div 2
        range == Max(raw - min, 0)
    IN IF base <= 0 THEN {0}
       ELSE IF cfg.jitter = FALSE THEN {raw}
       ELSE {min + r : r \in 0..range}

\* a variant in which a retry-after value always replaces the backoff
NextDelayRetryAfterFirst(error, backoff) ==
    IF error.kind = "S3Error" /\ error.retryAfter # NoRetryAfter
    THEN (error.retryAfter + 1) \div 2
    ELSE backoff

\* perform, lines 571-580: the delay before the next attempt
NextDelay(error, backoff) ==
    IF error.kind = "S3Error" /\ error.retryAfter # NoRetryAfter
    THEN LET retryDelay == (error.retryAfter + 1) \div 2
         IN IF retryDelay > backoff THEN retryDelay ELSE backoff
    ELSE backoff

-----------------------------------------------------------------------------
(* Clock skew and signing date *)

NoDateHeader == 0 - 1
InvalidDate == 0 - 2
NoAmzDate == 0 - 1

JsInt(n) == [k |-> "int", v |-> n]

JsUndefined == [k |-> "undefined", v |-> 0]

JsNaN == [k |-> "nan", v |-> 0]

JsHalf(n) == [k |-> "half", v |-> n]

JsInfinity(sign) == [k |-> "inf", v |-> sign]

\* twice a finite number
Twice(x) == IF x.k = "half" THEN 2 * x.v + 1 ELSE 2 * x.v

\* a < b for two numbers that are not NaN
JsLess(a, b) ==
    IF a.k = "inf" THEN a.v < 0 /\ (b.k # "inf" \/ b.v > 0)
    ELSE IF b.k = "inf" THEN b.v > 0
    ELSE Twice(a) < Twice(b)

\* a variant that takes the number as it is
normalizeClockSkewUnchecked(skew) == skew.v

\* normalizeClockSkew: a number that is not finite becomes 0
normalizeClockSkew(skew) == IF skew.k \in {"nan", "inf"} THEN 0 ELSE skew.v

\* a variant that leaves the estimate as it was
updateClockSkewIgnored(response, t, skew) == skew

\* S3Client.updateClockSkew; the Date header is in whole seconds
updateClockSkew(response, t, skew) ==
    IF response.date = NoDateHeader THEN skew
    ELSE IF response.date = InvalidDate THEN skew
    ELSE normalizeClockSkew(JsInt(response.date * MsPerSecond - t))

\* a variant that signs with the local clock alone
createSigningDateWithoutSkew == now

createSigningDate == now + clockSkewMs

\* formatAmzDate: the timestamp truncated to whole seconds
formatAmzDate(t) == t \div MsPerSecond

-----------------------------------------------------------------------------
(* Multipart part lists *)

\* a variant that lets part number 0 through
normalizePartNumberFromZero(value) ==
    IF value.k \in {"nan", "inf"} THEN [ok |-> FALSE, value |-> 0]
    ELSE IF value.k # "int" THEN [ok |-> FALSE, value |-> 0]
    ELSE IF value.v < 0 \/ value.v > MaxPartNumber THEN [ok |-> FALSE, value |-> 0]
    ELSE [ok |-> TRUE, value |-> value.v]

\* normalizePartNumber: the part number, or the error it throws
normalizePartNumber(value) ==
    IF value.k \in {"nan", "inf"} THEN [ok |-> FALSE, value |-> 0]
    ELSE IF value.k # "int" THEN [ok |-> FALSE, value |-> 0]
    ELSE IF value.v < 1 \/ value.v > MaxPartNumber THEN [ok |-> FALSE, value |-> 0]
    ELSE [ok |-> TRUE, value |-> value.v]

\* Array.prototype.sort with (a, b) => a.partNumber - b.partNumber: a stable sort
RECURSIVE InsertPart(_, _)
InsertPart(sorted, part) ==
    IF sorted = << >> THEN <<part>>
    ELSE IF Head(sorted).partNumber <= part.partNumber
         THEN <<Head(sorted)>> \o InsertPart(Tail(sorted), part)
         ELSE <<part>> \o sorted

\* a variant that leaves the parts in the caller's order
SortPartsSkipped(parts) == parts

RECURSIVE SortParts(_)
SortParts(parts) ==
    IF parts = << >> THEN << >>
    ELSE InsertPart(SortParts(SubSeq(parts, 1, Len(parts) - 1)), parts[Len(parts)])

\* normalizeCompletedParts: the sorted parts, or the error it throws
normalizeCompletedParts(parts) ==
    IF Len(parts) = 0 THEN [ok |-> FALSE, name |-> "Error", parts |-> << >>]
    ELSE IF \E i \in 1..Len(parts) : ~normalizePartNumber(parts[i].partNumber).ok
    THEN [ok |-> FALSE, name |-> "RangeError", parts |-> << >>]
    ELSE LET normalized ==
                 SortParts([i \in 1..Len(parts) |->
                     [partNumber |-> normalizePartNumber(parts[i].partNumber).value,
                      etag |-> parts[i].etag]])
         IN IF \E i \in 2..Len(normalized) :
                   normalized[i].partNumber = normalized[i - 1].partNumber
            THEN [ok |-> FALSE, name |-> "Error", parts |-> << >>]
            ELSE [ok |-> TRUE, name |-> "", parts |-> normalized]

RECURSIVE TrimStart(_)
TrimStart(s) == IF s # << >> /\ Head(s) = " " THEN TrimStart(Tail(s)) ELSE s

RECURSIVE TrimEnd(_)
TrimEnd(s) ==
    IF s # << >> /\ s[Len(s)] = " " THEN TrimEnd(SubSeq(s, 1, Len(s) - 1)) ELSE s

Trim(s) == TrimEnd(TrimStart(s))

\* ensureQuotedEtag on a non-empty trimmed etag
ensureQuotedEtag(etag) ==
    LET trimmed == Trim(etag)
    IN IF trimmed[1] = "\"" /\ trimmed[Len(trimmed)] = "\""
       THEN trimmed
       ELSE <<"\"">> \o trimmed \o <<"\"">>

EscapeChar(c) ==
    CASE c = "&" -> <<"&", "a", "m", "p", ";">>
      [] c = "<" -> <<"&", "l", "t", ";">>
      [] c = ">" -> <<"&", "g", "t", ";">>
      [] c = "'" -> <<"&", "#", "3", "9", ";">>
      [] OTHER -> <<c>>

RECURSIVE escapeXml(_)
escapeXml(s) ==
    IF s = << >> THEN << >> ELSE EscapeChar(Head(s)) \o escapeXml(Tail(s))

\* buildCompleteMultipartXml: the <Part> elements of the body in the order they
\* are written, or the error ensureQuotedEtag throws
buildCompleteMultipartXml(parts) ==
    IF \E i \in 1..Len(parts) : Trim(parts[i].etag) = << >>
    THEN [ok |-> FALSE, name |-> "Error", parts |-> << >>]
    ELSE [ok |-> TRUE, name |-> "",
          parts |-> [i \in 1..Len(parts) |->
                        [partNumber |-> parts[i].partNumber,
                         etag |-> escapeXml(ensureQuotedEtag(parts[i].etag))]]]

-----------------------------------------------------------------------------
(* Checksum policy for PUT.  A body is [kind, size]; size is its length in *)
(* bytes where it has one.                                                 *)

BodyKinds == {"null", "string", "object", "arraybuffer", "view", "blob",
              "stream", "formdata"}

NoBody == [kind |-> "null", size |-> 0]

\* put, lines 152-159: a plain object is sent as its JSON text
PutBody(rawBody) ==
    IF rawBody.kind = "object" THEN [kind |-> "string", size |-> rawBody.size]
    ELSE rawBody

\* a variant that refuses a body of exactly maxBytes
normalizeBodyForChecksumBelowCap(body, maxBytes) ==
    IF body.kind = "null" THEN "bytes"
    ELSE IF body.kind \in {"string", "arraybuffer", "view", "blob"}
         THEN IF body.size >= maxBytes THEN "too-large" ELSE "bytes"
    ELSE IF body.kind = "stream" THEN "stream"
    ELSE "unsupported"

\* normalizeBodyForChecksum: "bytes", or the reason the body cannot be buffered
normalizeBodyForChecksum(body, maxBytes) ==
    IF body.kind = "null" THEN "bytes"
    ELSE IF body.kind \in {"string", "arraybuffer", "view", "blob"}
         THEN IF body.size > maxBytes THEN "too-large" ELSE "bytes"
    ELSE IF body.kind = "stream" THEN "stream"
    ELSE "unsupported"

resolveChecksumHeaderName(algorithm) ==
    IF algorithm = "sha256" THEN "x-amz-checksum-sha256" ELSE "x-amz-checksum-crc32c"

\* S3Client.applyChecksum: the checksum header it sets ("" for none), or the
\* error it throws, which names the algorithm and the reason
applyChecksum(method, body) ==
    IF method # "PUT" THEN [ok |-> TRUE, header |-> "", algorithm |-> "", reason |-> ""]
    ELSE IF cfg.checksum.algorithm = "none"
    THEN [ok |-> TRUE, header |-> "", algorithm |-> "", reason |-> ""]
    ELSE LET normalized == normalizeBodyForChecksum(body, MAX_INLINE_CHECKSUM_BYTES)
         IN IF normalized # "bytes"
            THEN IF cfg.checksum.requireOnPut
                 THEN [ok |-> FALSE, header |-> "",
                       algorithm |-> cfg.checksum.algorithm, reason |-> normalized]
                 ELSE [ok |-> TRUE, header |-> "", algorithm |-> "", reason |-> ""]
            ELSE [ok |-> TRUE,
                  header |-> resolveChecksumHeaderName(cfg.checksum.algorithm),
                  algorithm |-> "", reason |-> ""]

-----------------------------------------------------------------------------
(* Range header (internal/core/serializer).  A range is [given, start,     *)
(* end]; given is FALSE when the caller passed no range at all.            *)

NoRange == [given |-> FALSE, start |-> JsUndefined, end |-> JsUndefined]

DecimalDigits == <<"0", "1", "2", "3", "4", "5", "6", "7", "8", "9">>

\* String(n) of a natural number n
RECURSIVE Decimal(_)
Decimal(n) ==
    IF n < 10 THEN <<DecimalDigits[n + 1]>>
    ELSE Decimal(n \div 10) \o <<DecimalDigits[(n % 10) + 1]>>

\* a variant that lets a bound with a fraction through, as its integer part
normalizeRangeBoundaryTruncating(value) ==
    IF value = JsUndefined THEN [ok |-> TRUE, defined |-> FALSE, value |-> 0]
    ELSE IF value.k \in {"nan", "inf"} THEN [ok |-> FALSE, defined |-> FALSE, value |-> 0]
    ELSE IF JsLess(value, JsInt(0)) THEN [ok |-> FALSE, defined |-> FALSE, value |-> 0]
    ELSE [ok |-> TRUE, defined |-> TRUE, value |-> value.v]

\* normalizeRangeBoundary: the bound, or ok FALSE for the RangeError it throws
normalizeRangeBoundary(value) ==
    IF value = JsUndefined THEN [ok |-> TRUE, defined |-> FALSE, value |-> 0]
    ELSE IF value.k \in {"nan", "inf"} THEN [ok |-> FALSE, defined |-> FALSE, value |-> 0]
    ELSE IF JsLess(value, JsInt(0)) THEN [ok |-> FALSE, defined |-> FALSE, value |-> 0]
    ELSE IF value.k # "int" THEN [ok |-> FALSE, defined |-> FALSE, value |-> 0]
    ELSE [ok |-> TRUE, defined |-> TRUE, value |-> value.v]

BytesEquals == <<"b", "y", "t", "e", "s", "=">>

\* formatRange: the value of the range header (present FALSE for undefined), or
\* ok FALSE for the RangeError it throws
formatRange(range) ==
    IF ~range.given THEN [ok |-> TRUE, present |-> FALSE, text |-> << >>]
    ELSE LET start == normalizeRangeBoundary(range.start)
             end == normalizeRangeBoundary(range.end)
         IN IF ~start.ok \/ ~end.ok
            THEN [ok |-> FALSE, present |-> FALSE, text |-> << >>]
            ELSE IF ~start.defined /\ ~end.defined
            THEN [ok |-> TRUE, present |-> FALSE, text |-> << >>]
            ELSE IF start.defined /\ end.defined /\ start.value > end.value
            THEN [ok |-> FALSE, present |-> FALSE, text |-> << >>]
            ELSE IF ~start.defined
            THEN [ok |-> TRUE, present |-> TRUE,
                  text |-> BytesEquals \o <<"-">> \o Decimal(end.value)]
            ELSE IF ~end.defined
            THEN [ok |-> TRUE, present |-> TRUE,
                  text |-> BytesEquals \o Decimal(start.value) \o <<"-">>]
            ELSE [ok |-> TRUE, present |-> TRUE,
                  text |-> BytesEquals \o Decimal(start.value) \o <<"-">>
                              \o Decimal(end.value)]

\* params.range of an object request
RangeOf(p) == IF "range" \in DOMAIN p THEN p.range ELSE NoRange

-----------------------------------------------------------------------------
(* The public methods up to the call of perform *)

NoCtx == [method |-> "", expectedStatus |-> {}, checksum |-> "", parts |-> << >>]

NoResult == [kind |-> "none", status |-> 0, error |-> NoError]

\* the concurrent call before it starts; lastWrite is the Date header with which
\* it last wrote clockSkewMs, Date.now() at that write, and where this call was
NoPeer ==
    [pc |-> "idle", attempt |-> 0,
     lastWrite |-> [date |-> 0 - 1, at |-> 0, attempt |-> 0, pc |-> ""]]

NoDecision ==
    [attempt |-> 0, hasResponse |-> FALSE, withResponse |-> "none",
     withoutResponse |-> "none", retry |-> FALSE, error |-> NoError]

Context(o, checksum, parts) ==
    [method |-> OpMethod(o), expectedStatus |-> ExpectedStatus(o),
     checksum |-> checksum, parts |-> parts]

\* What get, head, put, del, list, initiateMultipart, uploadPart,
\* completeMultipart and abortMultipart do before they call perform: the
\* PerformContext they build, or the error they throw
Prepare(o, p) ==
    LET number == normalizePartNumber(p.partNumber)
        parts == normalizeCompletedParts(p.parts)
        payload == buildCompleteMultipartXml(parts.parts)
        checksum == applyChecksum(OpMethod(o), PutBody(p.body))
    IN CASE o \in {"get", "head", "put", "del"} /\ ~formatRange(RangeOf(p)).ok ->
              [ok |-> FALSE, error |-> ValidationError("RangeError"), ctx |-> NoCtx]
         [] o = "uploadPart" ->
              IF number.ok
              THEN [ok |-> TRUE, error |-> NoError, ctx |-> Context(o, "", << >>)]
              ELSE [ok |-> FALSE, error |-> ValidationError("RangeError"), ctx |-> NoCtx]
         [] o = "completeMultipart" ->
              IF ~parts.ok
              THEN [ok |-> FALSE, error |-> ValidationError(parts.name), ctx |-> NoCtx]
              ELSE IF ~payload.ok
              THEN [ok |-> FALSE, error |-> ValidationError(payload.name), ctx |-> NoCtx]
              ELSE [ok |-> TRUE, error |-> NoError, ctx |-> Context(o, "", payload.parts)]
         [] o = "put" ->
              IF checksum.ok
              THEN [ok |-> TRUE, error |-> NoError,
                    ctx |-> Context(o, checksum.header, << >>)]
              ELSE [ok |-> FALSE,
                    error |-> [ValidationError("Error") EXCEPT
                                  !.code = checksum.algorithm \o ":" \o checksum.reason],
                    ctx |-> NoCtx]
         [] OTHER -> [ok |-> TRUE, error |-> NoError, ctx |-> Context(o, "", << >>)]

-----------------------------------------------------------------------------
(* Strings the code inspects character by character (keys, path names,    *)
(* query parameters, bucket and host names) are sequences of one-character *)
(* strings.                                                                *)

\* the characters of the model in UTF-16 code unit order, which is the order of
\* JavaScript's < on strings and of Array.prototype.sort
CodeUnitOrder ==
    <<" ", "!", "%", "&", "+", "-", ".", "/", "0", "1", "2", "3", "5", "9", ":",
      "=", "A", "B", "D", "F", "M", "_", "a", "b", "c", "~">>

CodeUnit(c) == CHOOSE i \in 1..Len(CodeUnitOrder) : CodeUnitOrder[i] = c

\* JavaScript's s < t
RECURSIVE StringLess(_, _)
StringLess(s, t) ==
    IF t = << >> THEN FALSE
    ELSE IF s = << >> THEN TRUE
    ELSE IF Head(s) = Head(t) THEN StringLess(Tail(s), Tail(t))
    ELSE CodeUnit(Head(s)) < CodeUnit(Head(t))

RECURSIVE Concat(_)
Concat(strings) ==
    IF strings = << >> THEN << >>
    ELSE IF Len(strings) = 1 THEN strings[1]
    ELSE LET half == Len(strings) \div 2
         IN Concat(SubSeq(strings, 1, half))
               \o Concat(SubSeq(strings, half + 1, Len(strings)))

\* String.prototype.split with a one-character separator
Split(s, sep) ==
    LET at == {i \in 1..Len(s) : s[i] = sep}
        n == Cardinality(at)
        nth(k) == IF k = 0 THEN 0
                  ELSE IF k = n + 1 THEN Len(s) + 1
                  ELSE CHOOSE i \in at : Cardinality({j \in at : j < i}) = k - 1
    IN [k \in 1..(n + 1) |-> SubSeq(s, nth(k - 1) + 1, nth(k) - 1)]

\* Array.prototype.join
RECURSIVE Join(_, _)
Join(strings, sep) ==
    IF strings = << >> THEN << >>
    ELSE IF Len(strings) = 1 THEN Head(strings)
    ELSE Head(strings) \o sep \o Join(Tail(strings), sep)

\* the characters encodeURIComponent leaves alone
UriComponentUnescaped ==
    {"-", ".", "0", "1", "2", "3", "5", "7", "9", "A", "B", "D", "E", "F", "M",
     "_", "a", "b", "c", "~", "!", "'", "(", ")", "*"}

\* %XX of the characters of the model that are percent-encoded; "u:" stands
\* for u with diaeresis, two bytes in UTF-8
PercentCode(c) ==
    CASE c = " " -> <<"%", "2", "0">>
      [] c = "!" -> <<"%", "2", "1">>
      [] c = "%" -> <<"%", "2", "5">>
      [] c = "&" -> <<"%", "2", "6">>
      [] c = "'" -> <<"%", "2", "7">>
      [] c = "(" -> <<"%", "2", "8">>
      [] c = ")" -> <<"%", "2", "9">>
      [] c = "*" -> <<"%", "2", "A">>
      [] c = "+" -> <<"%", "2", "B">>
      [] c = "/" -> <<"%", "2", "F">>
      [] c = ":" -> <<"%", "3", "A">>
      [] c = "=" -> <<"%", "3", "D">>
      [] c = "u:" -> <<"%", "C", "3", "%", "B", "C">>

encodeURIComponent(input) ==
    Concat([i \in 1..Len(input) |->
               IF input[i] \in UriComponentUnescaped THEN <<input[i]>>
               ELSE PercentCode(input[i])])

\* String.prototype.replace of every occurrence of the three characters of
\* pattern by replacement
RECURSIVE ReplaceAll(_, _, _)
ReplaceAll(s, pattern, replacement) ==
    IF Len(s) < 3 THEN s
    ELSE IF SubSeq(s, 1, 3) = pattern
         THEN replacement \o ReplaceAll(SubSeq(s, 4, Len(s)), pattern, replacement)
    ELSE <<Head(s)>> \o ReplaceAll(Tail(s), pattern, replacement)

\* a variant that stops at what encodeURIComponent does
uriEncodeComponentOnly(input, encodeSlash) ==
    LET component == encodeURIComponent(input)
    IN IF ~encodeSlash THEN ReplaceAll(component, <<"%", "2", "F">>, <<"/">>)
       ELSE component

\* uriEncode (encode.ts)
uriEncode(input, encodeSlash) ==
    LET component == encodeURIComponent(input)
        strict == Concat([i \in 1..Len(component) |->
                            IF component[i] \in {"!", "'", "(", ")", "*"}
                            THEN PercentCode(component[i])
                            ELSE <<component[i]>>])
        encoded == ReplaceAll(strict, <<"%", "7", "E">>, <<"~">>)
    IN IF ~encodeSlash THEN ReplaceAll(encoded, <<"%", "2", "F">>, <<"/">>)
       ELSE encoded

\* encodeS3Key
encodeS3Key(key) ==
    IF key = << >> THEN << >>
    ELSE LET stripped == IF Head(key) = "/" THEN Tail(key) ELSE key
             segments == Split(stripped, "/")
         IN Join([i \in 1..Len(segments) |-> uriEncode(segments[i], FALSE)], <<"/">>)

\* getCanonicalUri (signer.ts)
getCanonicalUri(pathname) ==
    IF pathname = << >> THEN <<"/">>
    ELSE LET segments == Split(pathname, "/")
             encodedPath == Join([i \in 1..Len(segments) |->
                                     uriEncode(segments[i], FALSE)], <<"/">>)
         IN IF encodedPath # << >> /\ Head(encodedPath) = "/" THEN encodedPath
            ELSE <<"/">> \o encodedPath

\* a variant of the comparator that orders by key alone
QueryEntryBeforeByKey(a, b) == StringLess(a.key, b.key)

\* the comparator of getCanonicalQuery: TRUE if a sorts before b
QueryEntryBefore(a, b) ==
    IF a.key = b.key THEN StringLess(a.value, b.value)
    ELSE StringLess(a.key, b.key)

\* Array.prototype.sort with that comparator (a stable sort)
InsertEntry(sorted, entry) ==
    LET after == {i \in 1..Len(sorted) : QueryEntryBefore(entry, sorted[i])}
        at == IF after = {} THEN Len(sorted) + 1
              ELSE CHOOSE i \in after : \A j \in after : i <= j
    IN SubSeq(sorted, 1, at - 1) \o <<entry>> \o SubSeq(sorted, at, Len(sorted))

RECURSIVE SortEntries(_)
SortEntries(entries) ==
    IF entries = << >> THEN << >>
    ELSE InsertEntry(SortEntries(SubSeq(entries, 1, Len(entries) - 1)),
                     entries[Len(entries)])

\* getCanonicalQuery (signer.ts); params are the decoded pairs of URLSearchParams
getCanonicalQuery(params_) ==
    LET entries == SortEntries(params_)
    IN Join([i \in 1..Len(entries) |->
                uriEncode(entries[i].key, TRUE) \o <<"=">> \o
                uriEncode(entries[i].value, TRUE)], <<"&">>)

-----------------------------------------------------------------------------
(* Request URL (core/endpoint): a URL is [hostname, pathname]; the endpoint *)
(* is given as new URL(endpoint) parsed it.                                *)

Digits == {"0", "1", "2", "3", "5", "9"}

LowerAlnumDotDash == Digits \cup {"a", "b", "c", ".", "-"}

\* IP_ADDRESS_REGEX /^(\d{1,3}\.){3}\d{1,3}$/
looksLikeIpAddress(value) ==
    LET groups == Split(value, ".")
    IN /\ Len(groups) = 4
       /\ \A i \in 1..4 :
             /\ Len(groups[i]) \in 1..3
             /\ \A j \in 1..Len(groups[i]) : groups[i][j] \in Digits

\* String.prototype.includes("..")
IncludesDotDot(s) == \E i \in 1..(Len(s) - 1) : s[i] = "." /\ s[i + 1] = "."

\* a variant that admits bucket names of two characters
isDnsCompatibleBucketNameFromTwo(bucket) ==
    /\ ~(Len(bucket) < 2 \/ Len(bucket) > 63)
    /\ ~(Head(bucket) \in {".", "-"} \/ bucket[Len(bucket)] \in {".", "-"})
    /\ ~IncludesDotDot(bucket)
    /\ \A i \in 1..Len(bucket) : bucket[i] \in LowerAlnumDotDash
    /\ ~looksLikeIpAddress(bucket)

\* isDnsCompatibleBucketName (utils/is.ts)
isDnsCompatibleBucketName(bucket) ==
    /\ ~(Len(bucket) < 3 \/ Len(bucket) > 63)
    /\ ~(Head(bucket) \in {".", "-"} \/ bucket[Len(bucket)] \in {".", "-"})
    /\ ~IncludesDotDot(bucket)
    /\ \A i \in 1..Len(bucket) : bucket[i] \in LowerAlnumDotDash
    /\ ~looksLikeIpAddress(bucket)

Localhost == <<"l", "o", "c", "a", "l", "h", "o", "s", "t">>

\* resolveBucketStyle; an absent bucket is the empty string
resolveBucketStyle(preferred, bucket, hostname) ==
    IF bucket = << >> THEN preferred
    ELSE IF preferred = "path" THEN "path"
    ELSE IF ~isDnsCompatibleBucketName(bucket) THEN "path"
    ELSE IF looksLikeIpAddress(hostname) \/ hostname = Localhost THEN "path"
    ELSE "virtual"

normalizeBasePath(pathname) ==
    IF pathname # << >> /\ pathname[Len(pathname)] = "/"
    THEN SubSeq(pathname, 1, Len(pathname) - 1)
    ELSE pathname

\* the pathname setter of URL, for a path that is empty or starts with "/" and
\* has no "." or ".." segment: the path of an http(s) URL is never empty
SetPathname(pathname) == IF pathname = << >> THEN <<"/">> ELSE pathname

\* buildRequestUrl: the URL it returns, or that it throws
buildRequestUrl(input) ==
    LET bucket == input.bucket
        base == input.endpoint
        effectiveStyle == resolveBucketStyle(input.bucketStyle, bucket, base.hostname)
        finalBucketStyle == IF bucket # << >> THEN effectiveStyle ELSE "virtual"
        hostname == IF bucket # << >> /\ finalBucketStyle = "virtual"
                    THEN bucket \o <<".">> \o base.hostname
                    ELSE base.hostname
        withBucket == IF bucket # << >> /\ finalBucketStyle = "path"
                      THEN SetPathname(normalizeBasePath(base.pathname) \o <<"/">>
                                       \o encodeURIComponent(bucket))
                      ELSE base.pathname
        encodedKey == encodeS3Key(input.key)
        basePath == normalizeBasePath(withBucket)
        pathname == SetPathname(IF encodedKey # << >>
                                THEN basePath \o <<"/">> \o encodedKey
                                ELSE basePath)
    IN IF bucket = << >> /\ effectiveStyle # "path"
       THEN [ok |-> FALSE, hostname |-> << >>, pathname |-> << >>]
       ELSE [ok |-> TRUE, hostname |-> hostname, pathname |-> pathname]

-----------------------------------------------------------------------------
(* SigV4 header signing (core/signer).  A Headers object is a function     *)
(* from lower-case header names to values.  SHA-256 and HMAC-SHA256 are    *)
(* injective constructors: a digest is the record of what was digested.    *)

NoDatetime == 0 - 1

UNSIGNED_PAYLOAD == "UNSIGNED-PAYLOAD"

\* the header names of the model in the order of Array.prototype.sort
HeaderOrder ==
    <<"authorization", "content-type", "host", "range", "x-amz-checksum-crc32c",
      "x-amz-checksum-sha256", "x-amz-content-sha256", "x-amz-date",
      "x-amz-meta-a", "x-amz-security-token">>

\* Headers.prototype.set
SetHeader(headers, name, value) ==
    [n \in DOMAIN headers \cup {name} |-> IF n = name THEN value ELSE headers[n]]

sha256Hex(body) == "sha256(" \o body.kind \o ")"

\* resolvePayloadHash
resolvePayloadHash(input, headers) ==
    IF input.unsignedPayload THEN UNSIGNED_PAYLOAD
    ELSE IF "x-amz-content-sha256" \in DOMAIN headers
    THEN headers["x-amz-content-sha256"]
    ELSE IF input.body.kind = "null" THEN sha256Hex(NoBody)
    ELSE IF input.body.kind \in {"string", "arraybuffer", "view", "blob"}
    THEN sha256Hex(input.body)
    ELSE UNSIGNED_PAYLOAD

\* ensureHost
ensureHost(headers, url) ==
    IF "host" \in DOMAIN headers THEN headers ELSE SetHeader(headers, "host", url.host)

\* a variant that leaves x-amz-date out of the signed headers
canonicalizeHeadersWithoutDate(headers) ==
    LET Present(n) == n \in DOMAIN headers /\ n # "x-amz-date"
        sortedKeys == SelectSeq(HeaderOrder, Present)
    IN [canonical |-> [i \in 1..Len(sortedKeys) |->
                          <<sortedKeys[i], headers[sortedKeys[i]]>>],
        signedHeaders |-> sortedKeys]

\* canonicalizeHeaders
canonicalizeHeaders(headers) ==
    LET Present(n) == n \in DOMAIN headers
        sortedKeys == SelectSeq(HeaderOrder, Present)
    IN [canonical |-> [i \in 1..Len(sortedKeys) |->
                          <<sortedKeys[i], headers[sortedKeys[i]]>>],
        signedHeaders |-> sortedKeys]

\* a variant that always signs with the wall clock
SigningDateFromClock(input, clock) == clock

\* signRequest, line 59: input.datetime ?? new Date()
SigningDate(input, clock) ==
    IF input.datetime = NoDatetime THEN clock ELSE input.datetime

\* signRequest called when Date.now() is clock: what it returns, with the
\* names of the headers it returns and the value of authorization among them
signRequest(input, clock) ==
    LET credentials == input.credentials
        date == SigningDate(input, clock)
        amzDate == formatAmzDate(date)
        shortDate == amzDate \div 86400
        withHost == ensureHost(input.headers, input.url)
        withDate == SetHeader(withHost, "x-amz-date", amzDate)
        withToken == IF credentials.sessionToken # ""
                     THEN SetHeader(withDate, "x-amz-security-token",
                                    credentials.sessionToken)
                     ELSE withDate
        payloadHash == resolvePayloadHash(input, withToken)
        headers == SetHeader(withToken, "x-amz-content-sha256", payloadHash)
        canonical == canonicalizeHeaders(headers)
        canonicalRequest ==
            [method |-> input.method,
             canonicalUri |-> getCanonicalUri(input.url.pathname),
             canonicalQuery |-> getCanonicalQuery(input.url.query),
             canonicalHeaders |-> canonical.canonical,
             signedHeaders |-> canonical.signedHeaders,
             payloadHash |-> payloadHash]
        credentialScope == [shortDate |-> shortDate, region |-> input.region,
                            service |-> "s3"]
        stringToSign == [amzDate |-> amzDate, credentialScope |-> credentialScope,
                         canonicalRequestHash |-> canonicalRequest]
        signature == [secretAccessKey |-> credentials.secretAccessKey,
                      shortDate |-> shortDate, region |-> input.region,
                      stringToSign |-> stringToSign]
        authorization == [accessKeyId |-> credentials.accessKeyId,
                          credentialScope |-> credentialScope,
                          signedHeaders |-> canonical.signedHeaders,
                          signature |-> signature]
    IN [names |-> DOMAIN headers \cup {"authorization"},
        headers |-> SetHeader(headers, "authorization", authorization),
        authorization |-> authorization,
        payloadHash |-> payloadHash,
        amzDate |-> amzDate,
        signedHeaders |-> canonical.signedHeaders]

\* the object at ref becomes value
Store(heap, ref, value) ==
    [r \in DOMAIN heap \cup {ref} |-> IF r = ref THEN value ELSE heap[r]]

\* a variant that hands back the Headers object it was given
cloneHeadersShared(heap, ref) == [heap |-> heap, ref |-> ref]

\* cloneHeaders: a new Headers object with the entries of the one at ref
cloneHeaders(heap, ref) == [heap |-> Store(heap, "next", heap[ref]), ref |-> "next"]

\* signRequest called with the store heap, in which input.headers is the
\* reference of the caller's Headers: the store it leaves, the reference of the
\* Headers it returns, and what signRequest computes
signRequestOn(heap, input, clock) ==
    LET cloned == cloneHeaders(heap, input.headers)
        signed == signRequest([input EXCEPT !.headers = cloned.heap[cloned.ref]],
                              clock)
    IN [heap |-> Store(cloned.heap, cloned.ref, signed.headers),
        headers |-> cloned.ref,
        signed |-> signed]

\* hasBody
hasBody(method) == method \in {"PUT", "POST"}

\* perform, lines 512-517: the names of the headers of new Request(url, {method,
\* headers, body}); the constructor adds content-type for a body that has a
\* MIME type (a string) when the headers have none
RequestHeaderNames(names, method, body) ==
    IF hasBody(method) /\ body.kind = "string" /\ "content-type" \notin names
    THEN names \cup {"content-type"}
    ELSE names

-----------------------------------------------------------------------------
(* What the public methods read from an accepted response.  An XML text is *)
(* a sequence of one-character strings in which an opening or closing tag  *)
(* the code looks for is one element ("<UploadId>", "</UploadId>").  A     *)
(* header is [present, value].  A response of the model that says nothing  *)
(* of its ETag header or its body has well-formed ones.                    *)

NoHeader == [present |-> FALSE, value |-> << >>]

Quote == "\""

EtagHeaderOf(response) ==
    IF "etag" \in DOMAIN response THEN response.etag
    ELSE [present |-> TRUE, value |-> <<Quote, "a", Quote>>]

BodyTextOf(response) ==
    IF "body" \in DOMAIN response THEN response.body
    ELSE <<"<UploadId>", "u", "</UploadId>">>

\* a variant that returns the value as it is
stripQuotesKept(value) == value

\* stripQuotes
stripQuotes(value) ==
    IF value # << >> /\ value[1] = Quote /\ value[Len(value)] = Quote
    THEN SubSeq(value, 2, Len(value) - 1)
    ELSE value

\* String.prototype.replace with a global pattern: every occurrence of pattern,
\* from left to right and without overlap, becomes replacement
RECURSIVE ReplaceEvery(_, _, _)
ReplaceEvery(s, pattern, replacement) ==
    IF Len(s) < Len(pattern) THEN s
    ELSE IF SubSeq(s, 1, Len(pattern)) = pattern
         THEN replacement \o ReplaceEvery(SubSeq(s, Len(pattern) + 1, Len(s)),
                                          pattern, replacement)
    ELSE <<Head(s)>> \o ReplaceEvery(Tail(s), pattern, replacement)

\* decodeXml: five replacements, one after the other
decodeXml(value) ==
    LET amp == ReplaceEvery(value, <<"&", "a", "m", "p", ";">>, <<"&">>)
        lt == ReplaceEvery(amp, <<"&", "l", "t", ";">>, <<"<">>)
        gt == ReplaceEvery(lt, <<"&", "g", "t", ";">>, <<">">>)
        quot == ReplaceEvery(gt, <<"&", "q", "u", "o", "t", ";">>, <<Quote>>)
    IN ReplaceEvery(quot, <<"&", "#", "3", "9", ";">>, <<"'">>)

\* extractTag: the decoded text between the first opening tag that has a
\* closing tag after it and the nearest such closing tag
extractTag(section, tag) ==
    LET open == "<" \o tag \o ">"
        close == "</" \o tag \o ">"
        Matches(i) == /\ section[i] = open
                      /\ \E j \in (i + 1)..Len(section) : section[j] = close
    IN IF \E i \in 1..Len(section) : Matches(i)
       THEN LET i == CHOOSE k \in 1..Len(section) :
                        Matches(k) /\ \A m \in 1..(k - 1) : ~Matches(m)
                j == CHOOSE k \in (i + 1)..Len(section) :
                        /\ section[k] = close
                        /\ \A m \in (i + 1)..(k - 1) : section[m] # close
            IN [found |-> TRUE, value |-> decodeXml(SubSeq(section, i + 1, j - 1))]
       ELSE [found |-> FALSE, value |-> << >>]

\* parseInitiateMultipartUpload
parseInitiateMultipartUpload(xml) == extractTag(xml, "UploadId")

\* an error thrown by a public method after perform returned
ResultError(name) == [ValidationError(name) EXCEPT !.kind = "result"]

-----------------------------------------------------------------------------
(* Actions *)

Raise(error) ==
    /\ pc' = "raised"
    /\ result' = [kind |-> "error", status |-> 0, error |-> error]

Return(status) ==
    /\ pc' = "returned"
    /\ result' = [kind |-> "response", status |-> status, error |-> NoError]

\* perform returned an accepted response to the public method: uploadPart
\* (lines 348-360) and initiateMultipart (lines 304-312) read their token from
\* it, the other methods return
Finish(response) ==
    CASE op = "uploadPart" ->
            LET etagHeader == EtagHeaderOf(response)
                etag == stripQuotes(etagHeader.value)
            IN IF ~etagHeader.present \/ etagHeader.value = << >>
               THEN Raise(ResultError("Error"))
               ELSE IF etag = << >>
               THEN Raise(ResultError("Error"))
               ELSE /\ pc' = "returned"
                    /\ result' = [kind |-> "response", status |-> response.status,
                                  error |-> NoError, etag |-> etag]
      [] op = "initiateMultipart" ->
            LET uploadId == parseInitiateMultipartUpload(BodyTextOf(response))
            IN IF ~uploadId.found \/ uploadId.value = << >>
               THEN Raise(ResultError("Error"))
               ELSE /\ pc' = "returned"
                    /\ result' = [kind |-> "response", status |-> response.status,
                                  error |-> NoError, uploadId |-> uploadId.value]
      [] OTHER -> Return(response.status)

\* A public method is called: parameters are validated and perform is entered
Call ==
    /\ pc = "ready"
    /\ op \in Ops
    /\ LET prepared == Prepare(op, params)
       IN IF prepared.ok
          THEN /\ ctx' = prepared.ctx
               /\ pc' = "sign"
               /\ UNCHANGED result
          ELSE /\ Raise(prepared.error)
               /\ UNCHANGED ctx
    /\ UNCHANGED <<cfg, op, params, signal, attempt, lastError, sent, delayMs,
                   clockSkewMs, now, decision, lastResponse, peer>>

\* shouldUseUnsignedPayload
shouldUseUnsignedPayload(method, body) ==
    IF method \in {"GET", "HEAD", "DELETE"} THEN TRUE
    ELSE IF body.kind = "null" THEN FALSE
    ELSE IF body.kind \in {"string", "blob", "arraybuffer", "view"} THEN FALSE
    ELSE body.kind = "stream"

\* the headers the caller gave to the public method
CallerHeaders == IF "headers" \in DOMAIN params THEN params.headers ELSE << >>

\* context.body: the body the public method hands to perform
ContextBody ==
    CASE op \in {"put", "uploadPart"} -> PutBody(params.body)
      [] op = "completeMultipart" -> [kind |-> "string", size |-> 1]
      [] OTHER -> NoBody

\* context.headers: createHeaders of the caller's headers, and the checksum
\* header applyChecksum set
ContextHeaders ==
    LET range == IF op \in {"get", "head", "put", "del"} THEN formatRange(RangeOf(params))
                 ELSE formatRange(NoRange)
        created == IF range.ok /\ range.present
                   THEN SetHeader(CallerHeaders, "range", range.text)
                   ELSE CallerHeaders
    IN IF ctx.checksum = "" THEN created
       ELSE SetHeader(created, ctx.checksum, "digest")

\* perform, lines 502-510: the input of signRequest
PerformSignInput ==
    [method |-> ctx.method,
     url |-> [host |-> "abc.s3.c", pathname |-> <<"/", "a">>, query |-> << >>],
     region |-> "us-east-1",
     credentials |-> [accessKeyId |-> "AK", secretAccessKey |-> "SK",
                      sessionToken |-> ""],
     headers |-> ContextHeaders,
     body |-> ContextBody,
     datetime |-> createSigningDate,
     unsignedPayload |-> shouldUseUnsignedPayload(ctx.method, ContextBody)]

\* a variant that signs whether or not there are credentials
performHeadersAlwaysSigned == signRequest(PerformSignInput, now).headers

\* perform, lines 498-512: the headers of the attempt
performHeaders ==
    IF cfg.credentials = "none" THEN ContextHeaders
    ELSE signRequest(PerformSignInput, now).headers

\* perform, lines 495-525: the loop head, signing, and the call of the transport
Dispatch ==
    /\ pc = "sign"
    /\ IF attempt < cfg.maxAttempts
       THEN /\ attempt' = attempt + 1
            /\ sent' = Append(sent,
                  [method |-> ctx.method,
                   amzDate |-> IF cfg.credentials = "none" THEN NoAmzDate
                               ELSE formatAmzDate(createSigningDate),
                   signedAt |-> now,
                   checksum |-> ctx.checksum,
                   parts |-> ctx.parts,
                   headers |-> performHeaders,
                   requestNames |-> RequestHeaderNames(DOMAIN performHeaders,
                                                       ctx.method, ContextBody)])
            /\ pc' = "inflight"
            /\ UNCHANGED result
       ELSE /\ Raise(ensureError(IF lastError.kind = "none"
                                 THEN TransportError("Error", FALSE, 0)
                                 ELSE lastError))
            /\ UNCHANGED <<attempt, sent>>
    /\ UNCHANGED <<cfg, op, params, signal, ctx, lastError, delayMs, clockSkewMs,
                   now, decision, lastResponse, peer>>

\* the verdicts retryConfig.retriable can give when shouldRetry calls it
VerdictChoices ==
    IF cfg.custom /\ attempt < cfg.maxAttempts THEN Verdicts ELSE {"none"}

\* perform, lines 550 and 568-583: the attempt is to be retried
Continue(error, dec) ==
    /\ lastError' = error
    /\ decision' = dec
    /\ \E backoff \in computeBackoffDelay(attempt) :
          LET delay == NextDelay(error, backoff)
          IN /\ delayMs' = delay
             /\ pc' = IF delay > 0 THEN "wait" ELSE "sign"
    /\ UNCHANGED result

Throw(error, dec) ==
    /\ Raise(error)
    /\ decision' = dec
    /\ UNCHANGED <<lastError, delayMs>>

\* a variant of the catch block that raises lastError, when there is one, instead
\* of the error just caught
CatchRaisingLastError(error, dec) ==
    IF isAbortError(error) THEN Throw(error, dec)
    ELSE \E v \in VerdictChoices :
            LET d == [dec EXCEPT !.withoutResponse = v]
            IN IF ~shouldRetry(ctx.method, FALSE, error, attempt, cfg.maxAttempts, v)
               THEN Throw(ensureError(IF lastError.kind = "none" THEN error
                                      ELSE lastError), d)
               ELSE Continue(error, [d EXCEPT !.retry = TRUE])

\* perform, lines 551-569: the catch block, entered with a thrown transport
\* failure or with the S3Error thrown at line 547
Catch(error, dec) ==
    IF isAbortError(error) THEN Throw(error, dec)
    ELSE \E v \in VerdictChoices :
            LET d == [dec EXCEPT !.withoutResponse = v]
            IN IF ~shouldRetry(ctx.method, FALSE, error, attempt, cfg.maxAttempts, v)
               THEN Throw(ensureError(error), d)
               ELSE Continue(error, [d EXCEPT !.retry = TRUE])

\* perform, lines 526-549: the transport returned a response
Respond(responses, elapses) ==
    /\ pc = "inflight"
    /\ ~signal.aborted
    /\ \E response \in responses, dt \in elapses :
          /\ now' = now + dt
          /\ clockSkewMs' = updateClockSkew(response, now + dt, clockSkewMs)
          /\ lastResponse' = [date |-> response.date, at |-> now + dt,
                               status |-> response.status,
                               seq |-> lastResponse.seq + 1,
                               etag |-> EtagHeaderOf(response),
                               body |-> BodyTextOf(response)]
          /\ IF matchesExpected(response.status, ctx.expectedStatus)
             THEN /\ Finish(response)
                  /\ UNCHANGED <<lastError, delayMs, decision>>
             ELSE LET error == createError(response, attempt)
                  IN \E v \in VerdictChoices :
                        LET dec == [attempt |-> attempt, hasResponse |-> TRUE,
                                    withResponse |-> v, withoutResponse |-> "none",
                                    retry |-> FALSE, error |-> error]
                        IN IF ~shouldRetry(ctx.method, TRUE, error, attempt,
                                           cfg.maxAttempts, v)
                           THEN Catch(error, dec)
                           ELSE Continue(error, [dec EXCEPT !.retry = TRUE])
    /\ UNCHANGED <<cfg, op, params, signal, ctx, attempt, sent, peer>>

\* the values a transport can throw: the signal's reason once the signal is
\* aborted; otherwise a network failure, an AbortError of its own, or a value
\* that is no Error
TransportFailures ==
    IF signal.aborted THEN {TransportError(signal.reason, TRUE, attempt)}
    ELSE {TransportError(name, FALSE, attempt) : name \in {"TypeError", "AbortError", ""}}

\* perform, lines 551-569: the transport threw
Fail(elapses) ==
    /\ pc = "inflight"
    /\ \E error \in TransportFailures, dt \in elapses :
          /\ now' = now + dt
          /\ Catch(error, [attempt |-> attempt, hasResponse |-> FALSE,
                           withResponse |-> "none", withoutResponse |-> "none",
                           retry |-> FALSE, error |-> error])
    /\ UNCHANGED <<cfg, op, params, signal, ctx, attempt, sent, clockSkewMs,
                   lastResponse, peer>>

\* a variant in which the timer runs cleanup and never resolves the promise
TimerFiresWithoutResolve ==
    /\ pc = "wait"
    /\ ~signal.aborted
    /\ UNCHANGED vars

\* S3Client.delay: the timer fires
TimerFires ==
    /\ pc = "wait"
    /\ ~signal.aborted
    /\ now' = now + delayMs
    /\ pc' = "sign"
    /\ UNCHANGED <<cfg, op, params, signal, ctx, attempt, lastError, sent, delayMs,
                   result, clockSkewMs, decision, lastResponse, peer>>

\* S3Client.delay: the signal is aborted when or while the wait is pending
DelayAborted ==
    /\ pc = "wait"
    /\ signal.aborted
    /\ Raise(ensureError([TransportError(signal.reason, TRUE, 0) EXCEPT !.kind = "abort"]))
    /\ UNCHANGED <<cfg, op, params, signal, ctx, attempt, lastError, sent, delayMs,
                   clockSkewMs, now, decision, lastResponse, peer>>

AbortReasons == {"AbortError", "TimeoutError"}

\* the caller aborts the signal it passed
Abort ==
    /\ signal.present
    /\ ~signal.aborted
    /\ pc \in {"ready", "sign", "inflight", "wait"}
    /\ \E reason \in AbortReasons :
          signal' = [signal EXCEPT !.aborted = TRUE, !.reason = reason, !.at = pc]
    /\ UNCHANGED <<cfg, op, params, pc, ctx, attempt, lastError, sent, delayMs,
                   result, clockSkewMs, now, decision, lastResponse, peer>>

-----------------------------------------------------------------------------
(* Specifications *)

StartTime == 5000

NoChecksum == [algorithm |-> "none", requireOnPut |-> FALSE]

DefaultParams ==
    [partNumber |-> JsInt(1),
     parts |-> <<[partNumber |-> JsInt(1), etag |-> <<"a">>]>>,
     body |-> [kind |-> "string", size |-> 1]]

InitWith(cfgs, ops, inputs, signals, skews) ==
    /\ cfg \in cfgs
    /\ op \in ops
    /\ params \in inputs
    /\ signal \in [present : signals, aborted : {FALSE}, reason : {""}, at : {""}]
    /\ pc = "ready"
    /\ ctx = NoCtx
    /\ attempt = 0
    /\ lastError = NoError
    /\ sent = << >>
    /\ delayMs = 0
    /\ result = NoResult
    /\ clockSkewMs \in skews
    /\ now = StartTime
    /\ decision = NoDecision
    /\ lastResponse = [date |-> NoDateHeader, at |-> 0, status |-> 0, seq |-> 0,
                       etag |-> NoHeader, body |-> << >>]
    /\ peer = NoPeer

\* Retry control: every method, with and without a retriable predicate
RetryConfigs ==
    [maxAttempts : 1..MaxAttemptsBound, baseDelayMs : {0, 1}, jitter : {TRUE},
     custom : BOOLEAN, credentials : {"static"}, checksum : {NoChecksum}]

Responses ==
    [status : {200, 204, 403, 503}, code : {"", "SlowDown"},
     date : {NoDateHeader}, retryAfter : {NoRetryAfter, 2000}]

Init == InitWith(RetryConfigs, Ops, {DefaultParams}, BOOLEAN, {0})

Next ==
    \/ Call
    \/ Dispatch
    \/ Respond(Responses, {0})
    \/ Fail({0})
    \/ TimerFires
    \/ DelayAborted
    \/ Abort

Spec == Init /\ [][Next]_vars

-----------------------------------------------------------------------------
(* Claims about retry control, checked under Spec *)

\* C1: a call hands at most maxAttempts requests to the transport, and when it
\* raises after at least one attempt the error raised is the error of the last
\* attempt made, never an earlier one (the only other error a call can raise
\* after an attempt is the rejection of a cancelled backoff wait)
C1_AttemptsBoundedLastErrorRaised ==
    /\ Len(sent) <= cfg.maxAttempts
    /\ attempt = Len(sent)
    /\ (pc = "raised" /\ Len(sent) >= 1) =>
          \/ result.error.kind = "abort"
          \/ /\ result.error.kind \in {"S3Error", "transport"}
             /\ result.error.attempt = Len(sent)

\* every one of at least two attempts failed and the last error was raised
C1_Witness ==
    /\ pc = "raised"
    /\ cfg.maxAttempts >= 2
    /\ Len(sent) = cfg.maxAttempts
    /\ lastError.attempt = Len(sent) - 1
    /\ result.error.attempt = Len(sent)

\* C2: without a retriable predicate, a call whose method is not GET or HEAD
\* hands at most one request to the transport, whatever the outcome
C2_NoRetryOfUnsafeMethods ==
    (~cfg.custom /\ ~(OpMethod(op) \in {"GET", "HEAD"})) => Len(sent) <= 1

\* a PUT failed with a retriable 503 while attempts remained, and was raised
C2_Witness ==
    /\ ~cfg.custom
    /\ op = "put"
    /\ cfg.maxAttempts >= 2
    /\ pc = "raised"
    /\ Len(sent) = 1
    /\ result.error.status = 503
    /\ result.error.retriable

\* C4: once the signal is aborted during an in-flight request or a backoff
\* wait, no further request is handed to the transport and the error the call
\* raises is the cancellation
C4_AbortStopsTheCall ==
    [][(signal.aborted /\ signal.at \in {"inflight", "wait"}) =>
          /\ Len(sent') = Len(sent)
          /\ (pc' = "raised" => result'.error.cancelled)]_vars

\* C5: with a retriable predicate, a failed attempt with attempts remaining is
\* retried exactly when the predicate returned true for its (response, error)
\* pair, and the predicate is not asked again with other arguments
C5_PredicateAloneDecides ==
    (cfg.custom /\ decision.attempt >= 1 /\ decision.attempt < cfg.maxAttempts) =>
       IF decision.hasResponse
       THEN /\ decision.retry <=> (decision.withResponse = "true")
            /\ decision.withoutResponse = "none"
       ELSE decision.retry <=> (decision.withoutResponse = "true")

-----------------------------------------------------------------------------
(* Classification of responses: every method against a wide range of       *)
(* statuses and error codes                                                *)

Statuses == {200, 201, 202, 204, 206, 301, 304, 400, 403, 404, 412, 416, 429,
             499, 500, 501, 502, 503, 504, 505, 599}

ClassifyConfigs ==
    [maxAttempts : {1, 2}, baseDelayMs : {0, 1}, jitter : {TRUE},
     custom : {FALSE}, credentials : {"static"}, checksum : {NoChecksum}]

ClassifyResponses ==
    [status : Statuses, code : Codes, date : {NoDateHeader},
     retryAfter : {NoRetryAfter}]

InitClassify == InitWith(ClassifyConfigs, Ops, {DefaultParams}, {TRUE}, {0})

NextClassify ==
    \/ Call
    \/ Dispatch
    \/ Respond(ClassifyResponses, {0})
    \/ Fail({0})
    \/ TimerFires
    \/ DelayAborted
    \/ Abort

SpecClassify == InitClassify /\ [][NextClassify]_vars

\* the retry controller judged a failed GET or HEAD attempt with attempts
\* remaining, without a retriable predicate
JudgedSafeAttempt ==
    /\ ~cfg.custom
    /\ ctx.method \in {"GET", "HEAD"}
    /\ decision.attempt >= 1
    /\ decision.attempt < cfg.maxAttempts

RetriableByStatus(status) ==
    status = 429 \/ (status >= 500 /\ status # 501 /\ status # 505)

ClaimedCodes ==
    {"SlowDown", "Throttling", "ThrottlingException", "RequestTimeout",
     "RequestTimeoutException", "RequestTimeTooSkewed", "InternalError",
     "ServiceUnavailable", "ServiceUnavailableException", "GatewayTimeout"}

AllowedCodes ==
    {"SLOWDOWN", "THROTTLING", "THROTTLINGEXCEPTION", "REQUESTTIMEOUT",
     "REQUESTTIMEOUTEXCEPTION", "REQUESTTIMETOOSKEWED", "INTERNALERROR",
     "SERVICEUNAVAILABLE", "SERVICEUNAVAILABLEEXCEPTION", "GATEWAYTIMEOUT",
     "HTTP503"}

ClaimedAccepted(o) ==
    CASE o \in {"get", "head"} -> {200, 304}
      [] o \in {"put", "completeMultipart"} -> {200, 412}
      [] o \in {"del", "abortMultipart"} -> {200, 202, 204}
      [] o \in {"list", "initiateMultipart", "uploadPart"} -> {200}

AmendedAccepted(o) ==
    CASE o \in {"get", "head"} -> {200, 304}
      [] o \in {"put", "completeMultipart"} -> {200, 412}
      [] o = "del" -> {200, 204}
      [] o = "abortMultipart" -> {200, 202, 204}
      [] o \in {"list", "initiateMultipart", "uploadPart"} -> {200}

\* the last response of the call was returned to the caller / decoded to an error
ReturnedStatus(accepted) == pc = "returned" => result.status \in accepted
DecodedStatus(accepted) ==
    (decision.attempt >= 1 /\ decision.hasResponse) =>
       /\ decision.error.kind = "S3Error"
       /\ ~(decision.error.status \in accepted)

\* C7 as claimed: a response is returned as a success exactly when its status
\* is in the accepted set of the method, del accepting 200, 202 and 204
C7_Claimed ==
    /\ ReturnedStatus(ClaimedAccepted(op))
    /\ DecodedStatus(ClaimedAccepted(op))

\* C7 as amended: ... del accepting 200 and 204 only (202 is accepted by
\* abortMultipart alone); every other status is decoded to an S3Error
C7_AcceptedStatuses ==
    /\ ReturnedStatus(AmendedAccepted(op))
    /\ DecodedStatus(AmendedAccepted(op))

\* a del answered 202 raised an S3Error, and the call was not retried
C7_Witness ==
    /\ op = "del"
    /\ pc = "raised"
    /\ result.error.kind = "S3Error"
    /\ result.error.status = 202
    /\ Len(sent) = 1

-----------------------------------------------------------------------------
(* Clock-skew correction: responses with and without a Date header, and    *)
(* time passing while a request is in flight and while a backoff is waited *)

SkewConfigs ==
    [maxAttempts : 1..MaxAttemptsBound, baseDelayMs : {0, 1}, jitter : {FALSE},
     custom : {FALSE}, credentials : {"static", "none"}, checksum : {NoChecksum}]

SkewResponses ==
    [status : {200, 403}, code : {"", "RequestTimeTooSkewed"},
     date : {NoDateHeader, InvalidDate, 4, 5, 4000},
     retryAfter : {NoRetryAfter, 2000}]

Elapses == {0, 400}

InitSkew == InitWith(SkewConfigs, {"get", "put"}, {DefaultParams}, {TRUE}, {0})

NextSkew ==
    \/ Call
    \/ Dispatch
    \/ Respond(SkewResponses, Elapses)
    \/ Fail(Elapses)
    \/ TimerFires
    \/ DelayAborted
    \/ Abort

SpecSkew == InitSkew /\ [][NextSkew]_vars

\* the first attempt of a signed GET with maxAttempts >= 2 was answered 403
\* RequestTimeTooSkewed with a parseable Date header
FirstAnswerSkewed ==
    /\ op = "get"
    /\ cfg.credentials = "static"
    /\ cfg.maxAttempts >= 2
    /\ decision.attempt = 1
    /\ decision.hasResponse
    /\ decision.error.status = 403
    /\ decision.error.code = "RequestTimeTooSkewed"

SecondRequestSent ==
    /\ FirstAnswerSkewed
    /\ attempt = 2
    /\ pc = "inflight"
    /\ lastResponse.date >= 0

\* the Date header of the last response plus the local time elapsed between
\* processing it and signing request n, as an x-amz-date
CorrectedDate(n) ==
    (lastResponse.date * MsPerSecond + (sent[n].signedAt - lastResponse.at))
        \div MsPerSecond

-----------------------------------------------------------------------------
(* Multipart part numbers and part lists: uploadPart with every part       *)
(* number of PartNumbers, completeMultipart with every list of at most     *)
(* MaxParts parts                                                          *)

PartNumbers ==
    {JsInt(0), JsInt(1), JsInt(2), JsInt(MaxPartNumber), JsInt(MaxPartNumber + 1),
     JsInt(0 - 1), [k |-> "half", v |-> 1], [k |-> "nan", v |-> 0],
     [k |-> "inf", v |-> 1]}

Etags == {<<"a">>, <<"\"", "b", "\"">>, << >>}

PartLists ==
    UNION {[1..n -> [partNumber : PartNumbers, etag : Etags]] : n \in 0..MaxParts}

PartsConfigs ==
    [maxAttempts : {1, 2}, baseDelayMs : {1}, jitter : {FALSE},
     custom : BOOLEAN, credentials : {"static"}, checksum : {NoChecksum}]

PartsResponses ==
    [status : {200, 500}, code : {""}, date : {NoDateHeader},
     retryAfter : {NoRetryAfter}]

InitParts ==
    \/ InitWith(PartsConfigs, {"uploadPart"},
                {[DefaultParams EXCEPT !.partNumber = n] : n \in PartNumbers},
                {TRUE}, {0})
    \/ InitWith(PartsConfigs, {"completeMultipart"},
                {[DefaultParams EXCEPT !.parts = list] : list \in PartLists},
                {TRUE}, {0})

NextParts ==
    \/ Call
    \/ Dispatch
    \/ Respond(PartsResponses, {0})
    \/ Fail({0})
    \/ TimerFires
    \/ DelayAborted
    \/ Abort

SpecParts == InitParts /\ [][NextParts]_vars

Rejected ==
    /\ pc = "raised"
    /\ result.error.kind = "validation"
    /\ sent = << >>

Accepted == ~(pc = "raised" /\ result.error.kind = "validation")

ValidPartNumber(n) == n.k = "int" /\ n.v >= 1 /\ n.v <= 10000

HasDuplicate(list) ==
    \E i, j \in 1..Len(list) : i < j /\ list[i].partNumber = list[j].partNumber

\* C8: the body of a CompleteMultipartUpload request lists exactly the parts
\* given, each once, in strictly ascending PartNumber order whatever the order
\* given (so permutations of one list give one body); a list with a duplicate
\* part number, and an empty list, raise a validation error and nothing is sent
C8_PartsAscendingAndUnique ==
    op = "completeMultipart" =>
       /\ \A n \in 1..Len(sent) :
             LET body == sent[n].parts
             IN /\ Len(body) = Len(params.parts)
                /\ \A i, j \in 1..Len(body) :
                      i < j => body[i].partNumber < body[j].partNumber
                /\ \A i \in 1..Len(params.parts) : \E j \in 1..Len(body) :
                      /\ params.parts[i].partNumber = JsInt(body[j].partNumber)
                      /\ body[j].etag = escapeXml(ensureQuotedEtag(params.parts[i].etag))
       /\ (pc # "ready" /\ (HasDuplicate(params.parts) \/ params.parts = << >>))
             => Rejected
       /\ (pc # "ready" /\ ~HasDuplicate(params.parts) /\ params.parts # << >>
             /\ (\A i \in 1..Len(params.parts) :
                    /\ ValidPartNumber(params.parts[i].partNumber)
                    /\ Trim(params.parts[i].etag) # << >>))
             => Accepted

\* parts given as 2 then 1 were sent as 1 then 2
C8_Witness ==
    /\ op = "completeMultipart"
    /\ Len(params.parts) = 2
    /\ params.parts[1].partNumber = JsInt(2)
    /\ params.parts[2].partNumber = JsInt(1)
    /\ Len(sent) = 1
    /\ sent[1].parts[1].partNumber = 1
    /\ sent[1].parts[2].partNumber = 2

\* C9: uploadPart and completeMultipart go on to the transport only with part
\* numbers that are integers in [1, 10000]; any other part number raises a
\* validation error and nothing is sent
C9_PartNumberRange ==
    /\ (op = "uploadPart" /\ pc # "ready") =>
          IF ValidPartNumber(params.partNumber) THEN Accepted ELSE Rejected
    /\ (op = "completeMultipart" /\ pc # "ready"
          /\ \E i \in 1..Len(params.parts) :
                ~ValidPartNumber(params.parts[i].partNumber)) => Rejected
    /\ (op \in {"uploadPart", "completeMultipart"} /\ sent # << >>) =>
          /\ ValidPartNumber(params.partNumber)
          /\ \A i \in 1..Len(params.parts) :
                ValidPartNumber(params.parts[i].partNumber)

\* part number 10000 was sent
C9_Witness ==
    /\ op = "uploadPart"
    /\ params.partNumber = JsInt(10000)
    /\ Len(sent) = 1

-----------------------------------------------------------------------------
(* Checksum policy: put with every kind of body around the buffering cap   *)

ChecksumConfigs ==
    [maxAttempts : {1, 2}, baseDelayMs : {1}, jitter : {FALSE},
     custom : BOOLEAN, credentials : {"static"},
     checksum : [algorithm : {"none", "sha256", "crc32c"}, requireOnPut : BOOLEAN]]

Bodies ==
    [kind : BodyKinds,
     size : {0, MAX_INLINE_CHECKSUM_BYTES - 1, MAX_INLINE_CHECKSUM_BYTES,
             MAX_INLINE_CHECKSUM_BYTES + 1}]

InitChecksum ==
    InitWith(ChecksumConfigs, {"put", "get", "uploadPart"},
             {[DefaultParams EXCEPT !.body = b] : b \in Bodies}, {TRUE}, {0})

NextChecksum ==
    \/ Call
    \/ Dispatch
    \/ Respond(PartsResponses, {0})
    \/ Fail({0})
    \/ TimerFires
    \/ DelayAborted
    \/ Abort

SpecChecksum == InitChecksum /\ [][NextChecksum]_vars

\* the body of the put as the claim classifies it
SentBody ==
    IF params.body.kind = "object" THEN [params.body EXCEPT !.kind = "string"]
    ELSE params.body

CanBeBuffered ==
    \/ SentBody.kind = "null"
    \/ /\ SentBody.kind \in {"string", "arraybuffer", "view", "blob"}
       /\ SentBody.size <= 16777216

ChecksumReason ==
    CASE SentBody.kind = "stream" -> "stream"
      [] SentBody.kind = "formdata" -> "unsupported"
      [] OTHER -> "too-large"

\* C10: a put with checksum algorithm sha256 or crc32c whose body cannot be
\* buffered raises an error naming the algorithm and the reason before anything
\* is sent if requireOnPut is true, and is sent without a checksum header
\* otherwise; a put whose body can be buffered is sent with the header
\* x-amz-checksum-<algorithm>
C10_ChecksumPolicy ==
    (op = "put" /\ cfg.checksum.algorithm # "none" /\ pc # "ready") =>
       IF CanBeBuffered
       THEN /\ Accepted
            /\ \A n \in 1..Len(sent) :
                  sent[n].checksum = "x-amz-checksum-" \o cfg.checksum.algorithm
       ELSE IF cfg.checksum.requireOnPut
       THEN /\ Rejected
            /\ result.error.code = cfg.checksum.algorithm \o ":" \o ChecksumReason
       ELSE /\ Accepted
            /\ \A n \in 1..Len(sent) : sent[n].checksum = ""

\* a string of exactly 16 MiB was sent with its crc32c checksum header
C10_Witness ==
    /\ op = "put"
    /\ cfg.checksum.algorithm = "crc32c"
    /\ cfg.checksum.requireOnPut
    /\ params.body = [kind |-> "string", size |-> 16777216]
    /\ Len(sent) = 1
    /\ sent[1].checksum = "x-amz-checksum-crc32c"

-----------------------------------------------------------------------------
(* Calls of the exported functions of core/signer and core/endpoint: op is *)
(* the function, params its argument, result what it returns or throws     *)

DefaultConfig ==
    [maxAttempts |-> 1, baseDelayMs |-> 0, jitter |-> FALSE, custom |-> FALSE,
     credentials |-> "static", checksum |-> NoChecksum]

InitFunction(name, inputs) == InitWith({DefaultConfig}, {name}, inputs, {FALSE}, {0})

FunctionReturns(value) ==
    /\ pc' = "returned"
    /\ result' = value
    /\ UNCHANGED <<cfg, op, params, signal, ctx, attempt, lastError, sent, delayMs,
                   clockSkewMs, now, decision, lastResponse, peer>>

FunctionThrows(value) ==
    /\ pc' = "raised"
    /\ result' = value
    /\ UNCHANGED <<cfg, op, params, signal, ctx, attempt, lastError, sent, delayMs,
                   clockSkewMs, now, decision, lastResponse, peer>>

\* all strings of at most n characters of alphabet
StringsUpTo(alphabet, n) == UNION {[1..k -> alphabet] : k \in 0..n}

Repeat(c, n) == [i \in 1..n |-> c]

DomainHost == <<"s", "3", ".", "c">>

Ipv4Host == <<"1", ".", "2", ".", "3", ".", "9">>

-----------------------------------------------------------------------------
(* Canonical URI and canonical query string of the request that            *)
(* buildRequestUrl and buildCanonicalRequest make of a key and a query     *)

KeyChars == {"a", " ", "+", "/", "~"}

Keys == StringsUpTo(KeyChars, MaxKeyLen)

QueryEntries == [key : {<<"a">>, <<"b">>, <<"a", " ">>},
                 value : {<<"1">>, <<"2">>, <<"+">>, <<"/">>}]

Queries == UNION {[1..n -> QueryEntries] : n \in 0..MaxParams}

CanonicalInputs ==
    [key : Keys, query : {<< >>}] \cup [key : {<<"a">>}, query : Queries]

\* perform with signRequest, as far as buildCanonicalRequest: the URL of the
\* request and the canonical URI and query string signed for it
BuildCanonicalRequest ==
    /\ pc = "ready"
    /\ op = "buildCanonicalRequest"
    /\ LET url == buildRequestUrl(
                     [endpoint |-> [hostname |-> DomainHost, pathname |-> <<"/">>],
                      bucketStyle |-> "virtual", bucket |-> <<"a", "b", "c">>,
                      key |-> params.key])
       IN FunctionReturns([kind |-> "canonical",
                           pathname |-> url.pathname,
                           canonicalUri |-> getCanonicalUri(url.pathname),
                           canonicalQuery |-> getCanonicalQuery(params.query)])

InitCanonical == InitFunction("buildCanonicalRequest", CanonicalInputs)

NextCanonical == BuildCanonicalRequest

SpecCanonical == InitCanonical /\ [][NextCanonical]_vars

\* C12: the canonical URI signed for a request whose URL buildRequestUrl built
\* from a key is the percent-encoded path of that URL, each segment encoded
\* exactly once
C12_CanonicalUriEncodedOnce ==
    (op = "buildCanonicalRequest" /\ pc = "returned") =>
       result.canonicalUri = result.pathname

EncodedPair(entry) ==
    uriEncode(entry.key, TRUE) \o <<"=">> \o uriEncode(entry.value, TRUE)

\* C13: the canonical query string has every parameter once per occurrence, key
\* and value percent-encoded (no space, "+" or "/" left), ordered by key and
\* among equal keys by value, joined with "&"; (b,2), (a,2), (a,1) in any order
\* give a=1&a=2&b=2
C13_CanonicalQuerySorted ==
    (op = "buildCanonicalRequest" /\ pc = "returned") =>
       LET query == params.query
           n == Len(query)
       IN /\ \E order \in Permutations(1..n) :
                /\ \A i \in 1..(n - 1) :
                      \/ StringLess(query[order[i]].key, query[order[i + 1]].key)
                      \/ /\ query[order[i]].key = query[order[i + 1]].key
                         /\ ~StringLess(query[order[i + 1]].value,
                                        query[order[i]].value)
                /\ result.canonicalQuery =
                      Join([i \in 1..n |-> EncodedPair(query[order[i]])], <<"&">>)
          /\ \A i \in 1..Len(result.canonicalQuery) :
                result.canonicalQuery[i] \notin {" ", "+", "/"}
          /\ {query[i] : i \in 1..n} =
                {[key |-> <<"b">>, value |-> <<"2">>], [key |-> <<"a">>, value |-> <<"2">>],
                 [key |-> <<"a">>, value |-> <<"1">>]} /\ n = 3
             => result.canonicalQuery =
                   <<"a", "=", "1", "&", "a", "=", "2", "&", "b", "=", "2">>

\* (b,2), (a,2), (a,1) in that order were canonicalised
C13_Witness ==
    /\ op = "buildCanonicalRequest"
    /\ pc = "returned"
    /\ params.query = <<[key |-> <<"b">>, value |-> <<"2">>],
                        [key |-> <<"a">>, value |-> <<"2">>],
                        [key |-> <<"a">>, value |-> <<"1">>]>>
    /\ result.canonicalQuery =
          <<"a", "=", "1", "&", "a", "=", "2", "&", "b", "=", "2">>

-----------------------------------------------------------------------------
(* buildRequestUrl with every bucket name of at most MaxBucketLen          *)
(* characters, names at the length limits, and no bucket                   *)

BucketChars == {"a", "1", ".", "-", "A"}

Buckets ==
    StringsUpTo(BucketChars, MaxBucketLen)
    \cup {Repeat("a", 63), Repeat("a", 64), <<"a", "_", "b">>,
          <<"1", ".", "1", ".", "1", ".", "1">>, <<"1", ".", "1", ".", "1", ".", "a">>}

EndpointInputs ==
    [endpoint : [hostname : {DomainHost, Ipv4Host, Localhost},
                 pathname : {<<"/">>, <<"/", "c">>}],
     bucketStyle : {"virtual", "path"},
     bucket : Buckets,
     key : {<< >>, <<"a">>}]

BuildRequestUrl ==
    /\ pc = "ready"
    /\ op = "buildRequestUrl"
    /\ LET url == buildRequestUrl(params)
       IN IF url.ok
          THEN FunctionReturns([kind |-> "url", hostname |-> url.hostname,
                                pathname |-> url.pathname])
          ELSE FunctionThrows([kind |-> "error", hostname |-> << >>,
                               pathname |-> << >>])

InitEndpoint == InitFunction("buildRequestUrl", EndpointInputs)

NextEndpoint == BuildRequestUrl

SpecEndpoint == InitEndpoint /\ [][NextEndpoint]_vars

\* the path of the endpoint, the bucket (if in the path) and the key
PathOf(inPath) ==
    LET base == IF params.endpoint.pathname = <<"/">> THEN << >>
                ELSE params.endpoint.pathname
        path == base \o (IF inPath THEN <<"/">> \o params.bucket ELSE << >>)
                     \o (IF params.key = << >> THEN << >> ELSE <<"/">> \o params.key)
    IN IF path = << >> THEN <<"/">> ELSE path

\* host unchanged, bucket the first path segment after the endpoint's own path
PathStyleUrl ==
    /\ pc = "returned"
    /\ result.hostname = params.endpoint.hostname
    /\ result.pathname = PathOf(TRUE)

\* bucket prefixed to the host name and absent from the path
VirtualHostedUrl ==
    /\ pc = "returned"
    /\ result.hostname = params.bucket \o <<".">> \o params.endpoint.hostname
    /\ result.pathname = PathOf(FALSE)

NotDnsCompatible(bucket) ==
    \/ Len(bucket) < 3
    \/ Len(bucket) > 63
    \/ \E i \in 1..Len(bucket) : bucket[i] \notin LowerAlnumDotDash
    \/ bucket[1] \in {".", "-"}
    \/ bucket[Len(bucket)] \in {".", "-"}
    \/ \E i \in 1..(Len(bucket) - 1) : bucket[i] = "." /\ bucket[i + 1] = "."
    \/ looksLikeIpAddress(bucket)

C20_PathStyleHonoured ==
    (op = "buildRequestUrl" /\ pc # "ready" /\ params.bucketStyle = "path") =>
       IF params.bucket = << >> THEN pc = "raised"
       ELSE PathStyleUrl /\ ~VirtualHostedUrl

-----------------------------------------------------------------------------
(* Calls of signRequest: every set of caller headers, with and without a   *)
(* session token, a body and a timestamp                                   *)

CallerHeaderNames ==
    {"authorization", "content-type", "host", "x-amz-content-sha256", "x-amz-meta-a"}

SignInputs ==
    [method : {"GET", "PUT"},
     url : {[host |-> "abc.s3.c", pathname |-> <<"/", "a">>, query |-> << >>]},
     region : {"us-east-1"},
     credentials : [accessKeyId : {"AK"}, secretAccessKey : {"SK"},
                    sessionToken : {"", "token"}],
     headers : UNION {[names -> {"v"}] : names \in SUBSET CallerHeaderNames},
     body : {NoBody, [kind |-> "string", size |-> 1], [kind |-> "stream", size |-> 0]},
     datetime : {NoDatetime, 1500},
     unsignedPayload : BOOLEAN]

\* perform, lines 500-517, or a caller of its own: signRequest is called with
\* the Headers object the calls before it were given, and the Request is built
\* from the headers it returns
SignRequest ==
    /\ op = "signRequest"
    /\ Len(sent) < MaxSignCalls
    /\ LET heap == [r \in {"input.headers"} |->
                       IF sent = << >> THEN params.headers
                       ELSE sent[Len(sent)].inputHeaders]
           call == signRequestOn(heap, [params EXCEPT !.headers = "input.headers"],
                                 now)
           signed == call.signed
       IN sent' = Append(sent,
             [signed |-> signed, signedAt |-> now, clockSkewMs |-> clockSkewMs,
              requestNames |-> RequestHeaderNames(DOMAIN call.heap[call.headers],
                                                  params.method, params.body),
              inputHeaders |-> call.heap["input.headers"]])
    /\ pc' = "returned"
    /\ UNCHANGED <<cfg, op, params, signal, ctx, attempt, lastError, delayMs, result,
                   clockSkewMs, now, decision, lastResponse, peer>>

\* the wall clock advances between two calls
ClockAdvances ==
    /\ op = "signRequest"
    /\ now < StartTime + MsPerSecond
    /\ now' = now + MsPerSecond
    /\ UNCHANGED <<cfg, op, params, signal, pc, ctx, attempt, lastError, sent,
                   delayMs, result, clockSkewMs, decision, lastResponse, peer>>

\* another call of the client processes a response between two calls
ClockSkewUpdated ==
    /\ op = "signRequest"
    /\ \E response \in [date : {9}] :
          /\ updateClockSkew(response, now, clockSkewMs) # clockSkewMs
          /\ clockSkewMs' = updateClockSkew(response, now, clockSkewMs)
    /\ UNCHANGED <<cfg, op, params, signal, pc, ctx, attempt, lastError, sent,
                   delayMs, result, now, decision, lastResponse, peer>>

InitSign == InitFunction("signRequest", SignInputs)

NextSign ==
    \/ SignRequest
    \/ ClockAdvances
    \/ ClockSkewUpdated

SpecSign == InitSign /\ [][NextSign]_vars

\* C11: calls of signRequest with the same method, URL, headers, body,
\* credentials, region, signing timestamp and unsignedPayload flag give the same
\* Authorization value, x-amz-date, signed-header list and payload hash, whatever
\* the wall clock, the clock-skew estimate and the calls made before
C11_SigningDeterministic ==
    (op = "signRequest" /\ params.datetime # NoDatetime) =>
       \A i, j \in 1..Len(sent) :
          /\ sent[i].signed.authorization = sent[j].signed.authorization
          /\ sent[i].signed.amzDate = sent[j].signed.amzDate
          /\ sent[i].signed.signedHeaders = sent[j].signed.signedHeaders
          /\ sent[i].signed.payloadHash = sent[j].signed.payloadHash

\* two calls with a timestamp, made at different wall-clock times and with
\* different clock-skew estimates
C11_Witness ==
    /\ op = "signRequest"
    /\ params.datetime # NoDatetime
    /\ Len(sent) = 2
    /\ sent[1].signedAt # sent[2].signedAt
    /\ sent[1].clockSkewMs # sent[2].clockSkewMs

HeaderRank(name) == CHOOSE i \in 1..Len(HeaderOrder) : HeaderOrder[i] = name

Listed(request) ==
    {request.signed.signedHeaders[i] : i \in 1..Len(request.signed.signedHeaders)}

\* the signed-header list is the sorted set of the caller's header names plus
\* host, x-amz-date, x-amz-content-sha256 and, iff there is a session token,
\* x-amz-security-token
SignedHeadersAsStated(request) ==
    /\ Listed(request) =
          DOMAIN params.headers \cup {"host", "x-amz-date", "x-amz-content-sha256"}
          \cup (IF params.credentials.sessionToken # ""
                THEN {"x-amz-security-token"} ELSE {})
    /\ \A i \in 1..(Len(request.signed.signedHeaders) - 1) :
          HeaderRank(request.signed.signedHeaders[i])
             < HeaderRank(request.signed.signedHeaders[i + 1])

\* C14 as stated: the signed-header list is as above, every header of the
\* dispatched request other than authorization is listed, and every listed
\* header is on the request
C14_Claimed ==
    op = "signRequest" =>
       \A i \in 1..Len(sent) :
          /\ SignedHeadersAsStated(sent[i])
          /\ sent[i].requestNames \ {"authorization"} \subseteq Listed(sent[i])
          /\ Listed(sent[i]) \subseteq sent[i].requestNames

\* C14: the signed-header list is as above, every header that signRequest
\* returns other than authorization is listed, and every listed header is on the
\* dispatched request; the request carries nothing else but a content-type that
\* the Request constructor adds for a body with a MIME type
C14_SignedHeadersArePresent ==
    op = "signRequest" =>
       \A i \in 1..Len(sent) :
          /\ SignedHeadersAsStated(sent[i])
          /\ sent[i].signed.names \ {"authorization"} \subseteq Listed(sent[i])
          /\ Listed(sent[i]) \subseteq sent[i].requestNames
          /\ sent[i].requestNames \ Listed(sent[i])
                \subseteq {"authorization", "content-type"}

\* a request with a session token and a caller's header was signed
C14_Witness ==
    /\ op = "signRequest"
    /\ params.credentials.sessionToken = "token"
    /\ DOMAIN params.headers = {"x-amz-meta-a"}
    /\ Len(sent) = 1
    /\ sent[1].signed.signedHeaders =
          <<"host", "x-amz-content-sha256", "x-amz-date", "x-amz-meta-a",
            "x-amz-security-token">>

-----------------------------------------------------------------------------
(* Backoff: GET with base delays 0..3 ms, with and without jitter, and     *)
(* retry-after values of 0, 0.5, 1.5, 2 and 3.5 ms (in half-milliseconds)  *)

BackoffConfigs ==
    [maxAttempts : 1..MaxAttemptsBound, baseDelayMs : 0..3, jitter : BOOLEAN,
     custom : {FALSE}, credentials : {"static"}, checksum : {NoChecksum}]

BackoffResponses ==
    [status : {200, 503}, code : {""}, date : {NoDateHeader},
     retryAfter : {NoRetryAfter, 0, 1, 3, 4, 7}]

InitBackoff == InitWith(BackoffConfigs, {"get"}, {DefaultParams}, {TRUE}, {0})

NextBackoff ==
    \/ Call
    \/ Dispatch
    \/ Respond(BackoffResponses, {0})
    \/ Fail({0})
    \/ TimerFires
    \/ DelayAborted
    \/ Abort

SpecBackoff == InitBackoff /\ [][NextBackoff]_vars

\* the last failed attempt is being retried and delayMs is the wait chosen for it
Retrying == decision.retry

\* baseDelayMs * 2^(n-1) for the attempt n that failed
Raw == cfg.baseDelayMs * 2 ^ (decision.attempt - 1)

HasRetryAfter ==
    decision.error.kind = "S3Error" /\ decision.error.retryAfter # NoRetryAfter

\* ceil(retryAfter * 1000), retryAfter being in half-milliseconds here
RetryAfterMs ==
    CHOOSE m \in 0..decision.error.retryAfter :
       2 * m >= decision.error.retryAfter /\ 2 * (m - 1) < decision.error.retryAfter

\* C15 as stated: with jitter and a positive base delay the backoff is in
\* [raw/2, raw]
C15_Claimed ==
    (Retrying /\ cfg.jitter /\ cfg.baseDelayMs > 0 /\ ~HasRetryAfter) =>
       (Raw <= 2 * delayMs /\ delayMs <= Raw)

\* C15: with jitter and a positive base delay the backoff is an integer in
\* [floor(raw/2), raw]
C15_JitterBounds ==
    (Retrying /\ cfg.jitter /\ cfg.baseDelayMs > 0 /\ ~HasRetryAfter) =>
       (Raw \div 2 <= delayMs /\ delayMs <= Raw)

\* with base delay 3 the wait after the first attempt was 1 ms
C15_Witness ==
    /\ Retrying
    /\ cfg.jitter
    /\ cfg.baseDelayMs = 3
    /\ decision.attempt = 1
    /\ ~HasRetryAfter
    /\ delayMs = 1
    /\ pc = "wait"

Backoffs ==
    IF cfg.baseDelayMs = 0 THEN {0}
    ELSE IF ~cfg.jitter THEN {Raw}
    ELSE (Raw \div 2)..Raw

\* C16: the wait before the next attempt is max(backoff, ceil(retryAfter * 1000))
\* when the failed attempt's S3Error has a retry-after value and the backoff
\* otherwise; without jitter the backoff after attempt n is baseDelayMs * 2^(n-1);
\* with base delay 0 and no retry-after there is no wait
C16_RetryAfterRaisesTheWait ==
    /\ Retrying =>
          /\ delayMs \in {IF HasRetryAfter /\ RetryAfterMs > b THEN RetryAfterMs ELSE b :
                             b \in Backoffs}
          /\ ~cfg.jitter =>
                delayMs = IF HasRetryAfter /\ RetryAfterMs > Raw THEN RetryAfterMs
                          ELSE Raw
          /\ (cfg.baseDelayMs = 0 /\ ~HasRetryAfter) => delayMs = 0
    /\ pc = "wait" => (Retrying /\ delayMs > 0)

\* a retry-after of 3.5 ms made the wait 4 ms where the backoff was 2 ms
C16_Witness ==
    /\ Retrying
    /\ ~cfg.jitter
    /\ cfg.baseDelayMs = 2
    /\ decision.attempt = 1
    /\ HasRetryAfter
    /\ decision.error.retryAfter = 7
    /\ delayMs = 4
    /\ pc = "wait"

-----------------------------------------------------------------------------
(* readErrorBody: params.chunks are the sizes of the chunks the body       *)
(* stream delivers, in order; the bytes of the body are numbered from 0    *)
(* and a retained chunk is the range [from, to) of the bytes it holds      *)

ChunkSizes == {0, 1, 32768, ErrorBodyLimit - 1, ErrorBodyLimit, ErrorBodyLimit + 1}

Streams == UNION {[1..n -> ChunkSizes] : n \in 0..MaxChunks}

\* a variant that keeps a chunk whole
KeptBytesWhole(byteLength, remaining) == byteLength

\* readErrorBody, lines 1129-1131: the bytes of a chunk that are kept
KeptBytes(byteLength, remaining) ==
    IF byteLength > remaining THEN remaining ELSE byteLength

RECURSIVE SumOf(_)
SumOf(sizes) == IF sizes = << >> THEN 0 ELSE Head(sizes) + SumOf(Tail(sizes))

\* readErrorBody, lines 1111-1114: the reader is taken
ReadErrorBody ==
    /\ pc = "ready"
    /\ op = "readErrorBody"
    /\ pc' = "reading"
    /\ result' = [kind |-> "reading", chunks |-> << >>, total |-> 0, reads |-> 0,
                  cancelled |-> FALSE]
    /\ UNCHANGED <<cfg, op, params, signal, ctx, attempt, lastError, sent, delayMs,
                   clockSkewMs, now, decision, lastResponse, peer>>

\* readErrorBody, lines 1117-1138 and 1143-1152: one turn of the loop, and the
\* return when the loop is left
ReadChunk ==
    /\ pc = "reading"
    /\ op = "readErrorBody"
    /\ LET read == result.reads + 1
           done == read > Len(params.chunks)
           byteLength == IF done THEN 0 ELSE params.chunks[read]
           from == SumOf(SubSeq(params.chunks, 1, result.reads))
           remaining == ErrorBodyLimit - result.total
           kept == KeptBytes(byteLength, remaining)
           total == result.total + kept
       IN IF done
          THEN /\ pc' = "returned"
               /\ result' = [result EXCEPT !.kind = "text"]
          ELSE IF byteLength = 0
          THEN /\ pc' = "reading"
               /\ result' = [result EXCEPT !.reads = read]
          ELSE IF result.total >= ErrorBodyLimit
          THEN /\ pc' = "returned"
               /\ result' = [result EXCEPT !.kind = "text", !.reads = read,
                                           !.cancelled = TRUE]
          ELSE /\ pc' = IF total >= ErrorBodyLimit THEN "returned" ELSE "reading"
               /\ result' = [kind |-> IF total >= ErrorBodyLimit THEN "text"
                                      ELSE "reading",
                             chunks |-> Append(result.chunks,
                                               [from |-> from, to |-> from + kept]),
                             total |-> total,
                             reads |-> read,
                             cancelled |-> total >= ErrorBodyLimit]
    /\ UNCHANGED <<cfg, op, params, signal, ctx, attempt, lastError, sent, delayMs,
                   clockSkewMs, now, decision, lastResponse, peer>>

InitErrorBody == InitFunction("readErrorBody", [chunks : Streams])

NextErrorBody ==
    \/ ReadErrorBody
    \/ ReadChunk

SpecErrorBody == InitErrorBody /\ [][NextErrorBody]_vars

BodyLength == SumOf(params.chunks)

\* the retained chunks are, in order and without gap, the bytes [0, upTo)
RetainedIsPrefix(upTo) ==
    /\ \A i \in 1..Len(result.chunks) :
          /\ result.chunks[i].from < result.chunks[i].to
          /\ result.chunks[i].from =
                IF i = 1 THEN 0 ELSE result.chunks[i - 1].to
    /\ upTo = IF result.chunks = << >> THEN 0
              ELSE result.chunks[Len(result.chunks)].to

\* the number of chunks that must be read to have 65536 bytes
ChunksToCap ==
    CHOOSE k \in 1..Len(params.chunks) :
       /\ SumOf(SubSeq(params.chunks, 1, k)) >= 65536
       /\ \A j \in 1..(k - 1) : SumOf(SubSeq(params.chunks, 1, j)) < 65536

\* C18: readErrorBody retains at most 65536 bytes whatever the chunk sizes: the
\* first min(length, 65536) bytes of the body; it stops reading and cancels the
\* stream as soon as it has 65536 bytes, and truncates the chunk that crosses
\* the cap
C18_ErrorBodyCapped ==
    (op = "readErrorBody" /\ pc # "ready") =>
       /\ result.total <= 65536
       /\ RetainedIsPrefix(result.total)
       /\ pc = "returned" =>
             /\ result.total = IF BodyLength < 65536 THEN BodyLength ELSE 65536
             /\ result.cancelled <=> BodyLength >= 65536
             /\ BodyLength >= 65536 => result.reads = ChunksToCap

\* chunks of 65535 and 65537 bytes: the second was cut to one byte and the
\* stream cancelled
C18_Witness ==
    /\ op = "readErrorBody"
    /\ pc = "returned"
    /\ params.chunks = <<65535, 65537>>
    /\ result.chunks = <<[from |-> 0, to |-> 65535], [from |-> 65535, to |-> 65536]>>
    /\ result.cancelled

-----------------------------------------------------------------------------
(* Concurrent calls on one client: beside the call followed so far, a      *)
(* second call of perform runs on the same instance. Both read clockSkewMs *)
(* when they sign and write it when a response arrives; a step is the code *)
(* between two awaits. peer.lastWrite is the last write of the second call *)
(* and where the first call stood at that moment                           *)

RaceConfigs ==
    [maxAttempts : 1..MaxAttemptsBound, baseDelayMs : {0, 1}, jitter : {FALSE},
     custom : {FALSE}, credentials : {"static"}, checksum : {NoChecksum}]

RaceResponses ==
    [status : {200, 403}, code : {"", "RequestTimeTooSkewed"},
     date : {NoDateHeader, InvalidDate, 4}, retryAfter : {NoRetryAfter}]

PeerResponses ==
    [status : {200}, code : {""}, date : {NoDateHeader, 9},
     retryAfter : {NoRetryAfter}]

\* perform, lines 495-525, in the second call: it signs and hands a request to
\* the transport
PeerDispatch ==
    /\ pc \in {"sign", "inflight", "wait"}
    /\ peer.pc = "idle"
    /\ peer.attempt < MaxPeerAttempts
    /\ peer' = [peer EXCEPT !.pc = "inflight", !.attempt = @ + 1]
    /\ UNCHANGED <<cfg, op, params, signal, pc, ctx, attempt, lastError, sent,
                   delayMs, result, clockSkewMs, now, decision, lastResponse>>

\* perform, lines 526-531, in the second call: a response arrives and
\* updateClockSkew is called with it
PeerRespond ==
    /\ peer.pc = "inflight"
    /\ \E response \in PeerResponses :
          /\ clockSkewMs' = updateClockSkew(response, now, clockSkewMs)
          /\ peer' = [peer EXCEPT
                !.pc = "idle",
                !.lastWrite = IF response.date >= 0
                              THEN [date |-> response.date, at |-> now,
                                    attempt |-> attempt, pc |-> pc]
                              ELSE @]
    /\ UNCHANGED <<cfg, op, params, signal, pc, ctx, attempt, lastError, sent,
                   delayMs, result, now, decision, lastResponse>>

InitRace == InitWith(RaceConfigs, {"get"}, {DefaultParams}, {TRUE}, {0})

NextRace ==
    \/ Call
    \/ Dispatch
    \/ Respond(RaceResponses, Elapses)
    \/ Fail(Elapses)
    \/ TimerFires
    \/ DelayAborted
    \/ Abort
    \/ PeerDispatch
    \/ PeerRespond

SpecRace == InitRace /\ [][NextRace]_vars

\* the estimate a response with Date header date, processed at local time at,
\* gives
EstimateFrom(date, at) == date * MsPerSecond - at

\* the step changes the estimate only to the one a response processed in that
\* very step gives
EstimateWrittenFromDate ==
    clockSkewMs' # clockSkewMs =>
       \/ /\ pc = "inflight"
          /\ lastResponse'.date >= 0
          /\ clockSkewMs' = EstimateFrom(lastResponse'.date, lastResponse'.at)
       \/ /\ peer.pc = "inflight"
          /\ peer'.lastWrite.date >= 0
          /\ clockSkewMs' = EstimateFrom(peer'.lastWrite.date, peer'.lastWrite.at)

\* the last response the call processed was RequestTimeTooSkewed with a
\* parseable Date header, and the call is about to sign again
SigningAfterSkewedResponse ==
    /\ pc = "sign"
    /\ pc' = "inflight"
    /\ lastError.kind = "S3Error"
    /\ lastError.code = "RequestTimeTooSkewed"
    /\ lastError.attempt = attempt
    /\ lastResponse.date >= 0

\* the second call wrote the estimate after the first call processed the
\* response of its current attempt
PeerWroteLater ==
    /\ peer.lastWrite.date >= 0
    /\ peer.lastWrite.attempt = attempt
    /\ peer.lastWrite.pc \in {"wait", "sign"}

FreshEstimate ==
    IF PeerWroteLater
    THEN EstimateFrom(peer.lastWrite.date, peer.lastWrite.at)
    ELSE EstimateFrom(lastResponse.date, lastResponse.at)

SignsWithFreshEstimate ==
    SigningAfterSkewedResponse =>
       sent'[Len(sent')].amzDate = formatAmzDate(now + FreshEstimate)

\* C17: however two calls on one client interleave, the clock-skew estimate
\* changes only to a value computed from the Date header of a response just
\* received, and the signing that follows a RequestTimeTooSkewed response with
\* a parseable Date header uses the estimate of that response or of a response
\* the other call processed after it, never the estimate from before
C17_SkewEstimateUnderConcurrency ==
    [][EstimateWrittenFromDate /\ SignsWithFreshEstimate]_vars

\* the second request of the call was signed, after a RequestTimeTooSkewed
\* response with Date 4, with the estimate the other call wrote from a
\* response with Date 9 in between
C17_Witness ==
    /\ pc = "inflight"
    /\ attempt = 2
    /\ Len(sent) = 2
    /\ lastError.code = "RequestTimeTooSkewed"
    /\ lastError.attempt = 1
    /\ lastResponse.date = 4
    /\ peer.lastWrite.date = 9
    /\ peer.lastWrite.attempt = 1
    /\ peer.lastWrite.pc \in {"wait", "sign"}
    /\ sent[2].amzDate =
          formatAmzDate(sent[2].signedAt
                        + EstimateFrom(peer.lastWrite.date, peer.lastWrite.at))
    /\ sent[2].amzDate #
          formatAmzDate(sent[2].signedAt
                        + EstimateFrom(lastResponse.date, lastResponse.at))

-----------------------------------------------------------------------------
(* encodeS3Key called on its own                                           *)

S3KeyChars == {"/", "a", " ", "+", "!", "'", "(", ")", "*", "~", "%", "u:"}

S3Keys == StringsUpTo(S3KeyChars, MaxKeyLen)

EncodeS3Key ==
    /\ pc = "ready"
    /\ op = "encodeS3Key"
    /\ FunctionReturns([kind |-> "key", encoded |-> encodeS3Key(params.key)])

InitKey == InitFunction("encodeS3Key", [key : S3Keys])

NextKey == EncodeS3Key

SpecKey == InitKey /\ [][NextKey]_vars

CountOf(c, s) == Cardinality({i \in 1..Len(s) : s[i] = c})

\* what a character of a key becomes: '/' and the unreserved characters stay,
\* every other character becomes the upper-case %XX of its UTF-8 bytes
KeyCharEncoded(c) ==
    CASE c = "/" -> <<"/">>
      [] c = "a" -> <<"a">>
      [] c = "~" -> <<"~">>
      [] c = " " -> <<"%", "2", "0">>
      [] c = "+" -> <<"%", "2", "B">>
      [] c = "!" -> <<"%", "2", "1">>
      [] c = "'" -> <<"%", "2", "7">>
      [] c = "(" -> <<"%", "2", "8">>
      [] c = ")" -> <<"%", "2", "9">>
      [] c = "*" -> <<"%", "2", "A">>
      [] c = "%" -> <<"%", "2", "5">>
      [] c = "u:" -> <<"%", "C", "3", "%", "B", "C">>

WithoutLeadingSlash(key) ==
    IF key # << >> /\ Head(key) = "/" THEN Tail(key) ELSE key

\* C21: encodeS3Key removes one leading '/' if there is one, encodes what is
\* left character by character (space %20, '+' %2B, ! ' ( ) * as %21 %27 %28
\* %29 %2A, '~' unchanged) and keeps every other '/' as it is, so the output
\* has as many '/' as the key without its leading one
C21_KeyEncodedBySegment ==
    (op = "encodeS3Key" /\ pc = "returned") =>
       LET rest == WithoutLeadingSlash(params.key)
       IN /\ result.encoded = Concat([i \in 1..Len(rest) |-> KeyCharEncoded(rest[i])])
          /\ CountOf("/", result.encoded) = CountOf("/", rest)

\* a key with a leading '/', an empty segment and a character of ! ' ( ) *
C21_Witness ==
    /\ op = "encodeS3Key"
    /\ pc = "returned"
    /\ params.key = <<"/", "/", "*">>
    /\ result.encoded = <<"/", "%", "2", "A">>

-----------------------------------------------------------------------------
(* Presigned URLs (core/signer presignUrl, S3Client.getSignedUrl).  The     *)
(* objects a call can reach are kept in a store, by reference: the caller's *)
(* URL is "input.url" and the caller's Headers "input.headers", so that a   *)
(* write through an alias shows on the caller's object.  A query string is  *)
(* the sequence of the entries of URLSearchParams.                          *)

\* Math.max and Math.min: NaN if an argument is NaN
MathMax(a, b) ==
    IF a.k = "nan" \/ b.k = "nan" THEN JsNaN ELSE IF JsLess(a, b) THEN b ELSE a

MathMin(a, b) ==
    IF a.k = "nan" \/ b.k = "nan" THEN JsNaN ELSE IF JsLess(b, a) THEN b ELSE a

\* clampExpiry
clampExpiry(value) == MathMin(MathMax(value, JsInt(1)), JsInt(MAX_PRESIGN_EXPIRY))

\* a variant that takes the caller's URL object as the presigned URL
newURLShared(heap, ref) == [heap |-> heap, ref |-> ref]

\* presignUrl, line 138: new URL(input.url.toString())
newURL(heap, ref) ==
    [heap |-> Store(heap, "presignedUrl", heap[ref]), ref |-> "presignedUrl"]

\* URLSearchParams.prototype.set: the first entry named key takes the value and
\* the other entries named key go; without such an entry one is appended
SearchParamsSet(query, key, value) ==
    IF \E i \in 1..Len(query) : query[i].key = key
    THEN LET first == CHOOSE i \in 1..Len(query) :
                         /\ query[i].key = key
                         /\ \A j \in 1..(i - 1) : query[j].key # key
             Kept(i) == query[i].key # key \/ i = first
             indexes == SelectSeq([i \in 1..Len(query) |-> i], Kept)
         IN [n \in 1..Len(indexes) |->
                IF indexes[n] = first THEN [key |-> key, value |-> value]
                ELSE query[indexes[n]]]
    ELSE Append(query, [key |-> key, value |-> value])

\* resolvePresignPayloadHash
resolvePresignPayloadHash(input) ==
    IF input.unsignedPayload THEN UNSIGNED_PAYLOAD
    ELSE IF input.method \in {"GET", "HEAD"} THEN UNSIGNED_PAYLOAD
    ELSE sha256Hex(NoBody)

\* presignUrl called with the store heap when Date.now() is clock: the store it
\* leaves and what it returns (url is the reference of the URL returned).
\* X-Amz-Expires is String(expires), which is one-to-one on numbers and kept as
\* the number
presignUrl(heap, input, clock) ==
    LET credentials == input.credentials
        date == IF input.datetime = NoDatetime THEN clock ELSE input.datetime
        amzDate == formatAmzDate(date)
        shortDate == amzDate \div 86400
        cloned == cloneHeaders(heap, input.headers)
        headers == cloned.ref
        h1 == Store(cloned.heap, headers, ensureHost(cloned.heap[headers],
                                                     cloned.heap[input.url]))
        h2 == IF credentials.sessionToken # ""
              THEN Store(h1, headers, SetHeader(h1[headers], "x-amz-security-token",
                                                credentials.sessionToken))
              ELSE h1
        payloadHash == resolvePresignPayloadHash(input)
        canonical == canonicalizeHeaders(h2[headers])
        credentialScope == [shortDate |-> shortDate, region |-> input.region,
                            service |-> "s3"]
        credential == [accessKeyId |-> credentials.accessKeyId,
                       credentialScope |-> credentialScope]
        expires == clampExpiry(IF input.expiresInSeconds = JsUndefined THEN JsInt(900)
                               ELSE input.expiresInSeconds)
        made == newURL(h2, input.url)
        presignedUrl == made.ref
        Set(h, key, value) ==
            Store(h, presignedUrl,
                  [h[presignedUrl] EXCEPT !.query = SearchParamsSet(@, key, value)])
        h3 == Set(made.heap, "X-Amz-Algorithm", "AWS4-HMAC-SHA256")
        h4 == Set(h3, "X-Amz-Credential", credential)
        h5 == Set(h4, "X-Amz-Date", amzDate)
        h6 == Set(h5, "X-Amz-Expires", expires)
        h7 == Set(h6, "X-Amz-SignedHeaders", canonical.signedHeaders)
        h8 == IF credentials.sessionToken # ""
              THEN Set(h7, "X-Amz-Security-Token", credentials.sessionToken)
              ELSE h7
        canonicalRequest ==
            [method |-> input.method,
             canonicalUri |-> getCanonicalUri(h8[presignedUrl].pathname),
             query |-> h8[presignedUrl].query,
             canonicalHeaders |-> canonical.canonical,
             signedHeaders |-> canonical.signedHeaders,
             payloadHash |-> payloadHash]
        signature == [secretAccessKey |-> credentials.secretAccessKey,
                      shortDate |-> shortDate, region |-> input.region,
                      stringToSign |-> [amzDate |-> amzDate,
                                        credentialScope |-> credentialScope,
                                        canonicalRequestHash |-> canonicalRequest]]
        h9 == Set(h8, "X-Amz-Signature", signature)
    IN [heap |-> h9, url |-> presignedUrl, payloadHash |-> payloadHash,
        amzDate |-> amzDate, signedHeaders |-> canonical.signedHeaders]

ExpiryValues ==
    {JsUndefined, JsNaN, JsInfinity(1), JsInfinity(0 - 1), JsInt(0 - 5), JsInt(0),
     JsHalf(0), JsInt(1), JsHalf(1), JsInt(900), JsInt(3600),
     JsInt(MAX_PRESIGN_EXPIRY - 1), JsInt(MAX_PRESIGN_EXPIRY),
     JsHalf(MAX_PRESIGN_EXPIRY), JsInt(MAX_PRESIGN_EXPIRY + 1)}

StaticCredentials ==
    [accessKeyId : {"AK"}, secretAccessKey : {"SK"}, sessionToken : {"", "token"}]

\* the query strings a caller's URL can have: with and without X-Amz-*
\* parameters of its own
CallerQueries ==
    {<< >>,
     <<[key |-> "versionId", value |-> "1"]>>,
     <<[key |-> "X-Amz-Expires", value |-> JsInt(5)],
       [key |-> "X-Amz-Expires", value |-> JsInt(6)]>>}

PresignInputs ==
    [method : {"GET", "PUT"},
     url : [host : {"abc.s3.c"}, pathname : {<<"/", "a">>}, query : CallerQueries],
     region : {"us-east-1"},
     credentials : StaticCredentials,
     headers : UNION {[names -> {"v"}] : names \in SUBSET {"host", "x-amz-meta-a"}},
     datetime : {NoDatetime, 1500},
     expiresInSeconds : ExpiryValues,
     unsignedPayload : BOOLEAN]

\* what a call of presignUrl or getSignedUrl gave: the URL returned and the
\* caller's URL and Headers objects as the call left them
Presigned(signed) ==
    [kind |-> "presigned",
     url |-> signed.heap[signed.url],
     signedHeaders |-> signed.signedHeaders,
     inputUrl |-> signed.heap["input.url"],
     inputHeaders |-> signed.heap["input.headers"]]

\* presignUrl called by a caller of its own
PresignUrl ==
    /\ pc = "ready"
    /\ op = "presignUrl"
    /\ LET heap == [r \in {"input.url", "input.headers"} |->
                       IF r = "input.url" THEN params.url ELSE params.headers]
           input == [params EXCEPT !.url = "input.url", !.headers = "input.headers"]
       IN FunctionReturns(Presigned(presignUrl(heap, input, now)))

GetSignedUrlInputs ==
    [method : {"GET", "PUT"}, key : {<< >>, <<"a">>}, query : CallerQueries,
     headers : UNION {[names -> {"v"}] : names \in SUBSET {"x-amz-meta-a"}},
     expiresInSeconds : ExpiryValues]

\* S3Client.getSignedUrl
GetSignedUrl ==
    /\ pc = "ready"
    /\ op = "getSignedUrl"
    /\ IF params.key = << >>
       THEN FunctionThrows([kind |-> "error", status |-> 0,
                            error |-> ValidationError("Error")])
       ELSE LET built == buildRequestUrl(
                            [endpoint |-> [hostname |-> DomainHost, pathname |-> <<"/">>],
                             bucketStyle |-> "virtual", bucket |-> <<"a", "b", "c">>,
                             key |-> params.key])
                url == [host |-> "abc.s3.c", pathname |-> built.pathname,
                        query |-> params.query]
                heap == [r \in {"input.url", "input.headers"} |->
                            IF r = "input.url" THEN url ELSE params.headers]
            IN IF cfg.credentials = "none"
               THEN FunctionThrows([kind |-> "error", status |-> 0,
                                    error |-> ValidationError("Error")])
               ELSE FunctionReturns(Presigned(presignUrl(heap,
                       [method |-> params.method, url |-> "input.url",
                        headers |-> "input.headers",
                        credentials |-> [accessKeyId |-> "AK", secretAccessKey |-> "SK",
                                         sessionToken |-> ""],
                        region |-> "us-east-1", datetime |-> NoDatetime,
                        expiresInSeconds |-> params.expiresInSeconds,
                        unsignedPayload |-> TRUE], now)))

PresignConfigs ==
    [maxAttempts : {1}, baseDelayMs : {0}, jitter : {FALSE}, custom : {FALSE},
     credentials : {"static", "none"}, checksum : {NoChecksum}]

InitPresign ==
    \/ InitFunction("presignUrl", PresignInputs)
    \/ InitWith(PresignConfigs, {"getSignedUrl"}, GetSignedUrlInputs, {FALSE}, {0})

NextPresign ==
    \/ PresignUrl
    \/ GetSignedUrl

SpecPresign == InitPresign /\ [][NextPresign]_vars

\* the values of the parameter key of a query string
ParamValues(query, key) == {query[i].value : i \in {j \in 1..Len(query) : query[j].key = key}}

PresignReturned == op \in {"presignUrl", "getSignedUrl"} /\ pc = "returned"

\* the value X-Amz-Expires must have for an expiresInSeconds that is a finite
\* number, an infinity or omitted
ExpectedExpiry(value) ==
    IF value = JsUndefined THEN JsInt(900)
    ELSE IF JsLess(value, JsInt(1)) THEN JsInt(1)
    ELSE IF JsLess(JsInt(604800), value) THEN JsInt(604800)
    ELSE value

InExpiryRange(value) ==
    /\ value.k \in {"int", "half"}
    /\ ~JsLess(value, JsInt(1))
    /\ ~JsLess(JsInt(604800), value)

\* C22: whatever expiresInSeconds is, the returned URL has one
\* X-Amz-Expires parameter, it lies in [1, 604800], and it is 1 for a value
\* below 1, 604800 for a value above 604800, the value itself in between and
\* 900 when expiresInSeconds is omitted
C22_ExpiryClamped ==
    PresignReturned =>
       \E value \in ExpiryValues :
          /\ ParamValues(result.url.query, "X-Amz-Expires") = {value}
          /\ InExpiryRange(value)
          /\ params.expiresInSeconds.k # "nan" =>
                value = ExpectedExpiry(params.expiresInSeconds)

-----------------------------------------------------------------------------
(* Signing and presigning together: what the calls do to the objects they  *)
(* are given                                                                *)

InitFrame == InitSign \/ InitPresign

NextFrame ==
    \/ SignRequest
    \/ ClockAdvances
    \/ ClockSkewUpdated
    \/ PresignUrl
    \/ GetSignedUrl

SpecFrame == InitFrame /\ [][NextFrame]_vars

SameHeaders(a, b) == DOMAIN a = DOMAIN b /\ \A n \in DOMAIN a : a[n] = b[n]

AmzParams ==
    {"X-Amz-Algorithm", "X-Amz-Credential", "X-Amz-Date", "X-Amz-Expires",
     "X-Amz-SignedHeaders", "X-Amz-Signature"}

\* the names signRequest sets on the headers it returns
SetBySigning(input) ==
    {"authorization", "x-amz-date", "x-amz-content-sha256", "host"}
       \cup (IF input.credentials.sessionToken # "" THEN {"x-amz-security-token"}
             ELSE {})

\* C23: presignUrl leaves the caller's URL and Headers as they were and puts
\* the X-Amz-* parameters on the URL it returns; signRequest leaves the
\* caller's Headers as they were, so that each of the signings of a call starts
\* from the original headers: the headers it returns are the caller's plus the
\* ones it sets, its signed-header list has no authorization the caller did not
\* supply, and its x-amz-date is the one of its own signing date
C23_SigningLeavesInputsAlone ==
    /\ (op = "presignUrl" /\ pc = "returned") =>
          /\ result.inputUrl = params.url
          /\ SameHeaders(result.inputHeaders, params.headers)
          /\ \A key \in AmzParams :
                Cardinality({i \in 1..Len(result.url.query) :
                                result.url.query[i].key = key}) = 1
    /\ op = "signRequest" =>
          \A i \in 1..Len(sent) :
             /\ SameHeaders(sent[i].inputHeaders, params.headers)
             /\ DOMAIN sent[i].signed.headers =
                   DOMAIN params.headers \cup SetBySigning(params)
             /\ \A n \in DOMAIN params.headers \ SetBySigning(params) :
                   sent[i].signed.headers[n] = params.headers[n]
             /\ \A k \in 1..Len(sent[i].signed.signedHeaders) :
                   sent[i].signed.signedHeaders[k] = "authorization" =>
                      "authorization" \in DOMAIN params.headers
             /\ sent[i].signed.headers["x-amz-date"] =
                   formatAmzDate(SigningDate(params, sent[i].signedAt))
             /\ sent[i].signed.payloadHash =
                   resolvePayloadHash(params, params.headers)

\* two signings of the same call one second apart, the caller's headers having
\* neither authorization nor x-amz-content-sha256: the second x-amz-date is not
\* the first one
C23_Witness ==
    /\ op = "signRequest"
    /\ Len(sent) = 2
    /\ params.datetime = NoDatetime
    /\ DOMAIN params.headers = {"x-amz-meta-a"}
    /\ sent[1].signed.amzDate # sent[2].signed.amzDate
    /\ sent[2].signed.headers["x-amz-date"] = sent[2].signed.amzDate
    /\ SameHeaders(sent[2].inputHeaders, params.headers)

-----------------------------------------------------------------------------
(* Clients with and without credentials: get and put with caller headers,  *)
(* retried on 503, and getSignedUrl                                        *)

AnonymousConfigs ==
    [maxAttempts : 1..MaxAttemptsBound, baseDelayMs : {0, 1}, jitter : {FALSE},
     custom : {FALSE}, credentials : {"none", "static"},
     checksum : {NoChecksum, [algorithm |-> "sha256", requireOnPut |-> FALSE]}]

AnonymousParams ==
    [partNumber : {JsInt(1)},
     parts : {<<[partNumber |-> JsInt(1), etag |-> <<"a">>]>>},
     body : {[kind |-> "string", size |-> 1]},
     headers : UNION {[names -> {"v"}] : names \in SUBSET {"content-type", "x-amz-meta-a"}}]

AnonymousResponses ==
    [status : {200, 503}, code : {""}, date : {NoDateHeader},
     retryAfter : {NoRetryAfter}]

InitAnonymous ==
    \/ InitWith(AnonymousConfigs, {"get", "put"}, AnonymousParams, {TRUE}, {0})
    \/ InitWith(AnonymousConfigs, {"getSignedUrl"}, GetSignedUrlInputs, {TRUE}, {0})

NextAnonymous ==
    \/ Call
    \/ Dispatch
    \/ Respond(AnonymousResponses, {0})
    \/ Fail({0})
    \/ TimerFires
    \/ DelayAborted
    \/ Abort
    \/ GetSignedUrl

SpecAnonymous == InitAnonymous /\ [][NextAnonymous]_vars

SigningHeaderNames == {"authorization", "x-amz-date", "x-amz-content-sha256"}

C24_WitnessPresign ==
    /\ cfg.credentials = "none"
    /\ op = "getSignedUrl"
    /\ params.key # << >>
    /\ pc = "raised"

-----------------------------------------------------------------------------
(* Ranged requests: get with every pair of bounds of RangeBounds, retried   *)
(* on 503                                                                   *)

RangeBounds ==
    {JsUndefined, JsNaN, JsInfinity(1), JsInfinity(0 - 1), JsInt(0 - 1),
     JsHalf(0 - 1), JsInt(0), JsHalf(0), JsInt(5), JsInt(99), JsInt(100)}

Ranges == {NoRange} \cup [given : {TRUE}, start : RangeBounds, end : RangeBounds]

RangeConfigs ==
    [maxAttempts : 1..MaxAttemptsBound, baseDelayMs : {0, 1}, jitter : {FALSE},
     custom : {FALSE}, credentials : {"static"}, checksum : {NoChecksum}]

RangeParams ==
    [partNumber : {JsInt(1)},
     parts : {<<[partNumber |-> JsInt(1), etag |-> <<"a">>]>>},
     body : {[kind |-> "string", size |-> 1]},
     range : Ranges]

InitRange == InitWith(RangeConfigs, {"get"}, RangeParams, {TRUE}, {0})

NextRange ==
    \/ Call
    \/ Dispatch
    \/ Respond(AnonymousResponses, {0})
    \/ Fail({0})
    \/ TimerFires
    \/ DelayAborted
    \/ Abort

SpecRange == InitRange /\ [][NextRange]_vars

\* the bound is a non-negative integer
ValidBound(value) == value.k = "int" /\ value.v >= 0

\* the range of the call asks for a RangeError
BadRange ==
    /\ params.range.given
    /\ \/ params.range.start # JsUndefined /\ ~ValidBound(params.range.start)
       \/ params.range.end # JsUndefined /\ ~ValidBound(params.range.end)
       \/ /\ ValidBound(params.range.start)
          /\ ValidBound(params.range.end)
          /\ params.range.start.v > params.range.end.v

\* the range header that goes with the range of the call
ExpectedRangeHeader ==
    LET start == params.range.start
        end == params.range.end
    IN IF start # JsUndefined /\ end # JsUndefined
       THEN BytesEquals \o Decimal(start.v) \o <<"-">> \o Decimal(end.v)
       ELSE IF start # JsUndefined
       THEN BytesEquals \o Decimal(start.v) \o <<"-">>
       ELSE BytesEquals \o <<"-">> \o Decimal(end.v)

\* C25: a range with a bound that is negative, has a fraction or is not
\* finite, or with start above end, makes the call raise a RangeError with no
\* request dispatched; otherwise every request of the call has the range
\* header bytes=<start>-<end>, bytes=<start>- or bytes=-<end> according to the
\* bounds given, and none when no bound is given
C25_RangeHeader ==
    op = "get" =>
       /\ BadRange =>
             /\ sent = << >>
             /\ pc \in {"ready", "raised"}
             /\ pc = "raised" => result.error.name = "RangeError"
       /\ ~BadRange =>
             /\ ~(pc = "raised" /\ result.error.name = "RangeError")
             /\ \A i \in 1..Len(sent) :
                   IF params.range.given
                      /\ (params.range.start # JsUndefined
                          \/ params.range.end # JsUndefined)
                   THEN /\ "range" \in DOMAIN sent[i].headers
                        /\ sent[i].headers["range"] = ExpectedRangeHeader
                   ELSE "range" \notin DOMAIN sent[i].headers

\* a get of the last 100 bytes, retried: both requests carry bytes=-100
C25_Witness ==
    /\ op = "get"
    /\ params.range.given
    /\ params.range.start = JsUndefined
    /\ params.range.end = JsInt(100)
    /\ Len(sent) = 2
    /\ sent[2].headers["range"] = <<"b", "y", "t", "e", "s", "=", "-", "1", "0", "0">>

-----------------------------------------------------------------------------
(* Multipart tokens: uploadPart and initiateMultipart answered with every   *)
(* ETag header of EtagHeaders and every body of InitiateBodies              *)

EtagHeaders ==
    {NoHeader} \cup
    [present : {TRUE},
     value : {<< >>, <<Quote>>, <<Quote, Quote>>, <<Quote, "a", Quote>>, <<"a">>,
              <<Quote, "a">>, <<"W", "/", Quote, "a", Quote>>,
              <<Quote, Quote, "a", Quote, Quote>>}]

InitiateBodies ==
    {<< >>,
     <<"<UploadId>", "u", "</UploadId>">>,
     <<"<UploadId>", "</UploadId>">>,
     <<"<UploadId>", "u">>,
     <<"x", "<UploadId>", "u", "&", "a", "m", "p", ";", "</UploadId>", "y">>,
     <<"</UploadId>", "<UploadId>", "u", "</UploadId>", "v", "</UploadId>">>}

TokenConfigs ==
    [maxAttempts : 1..MaxAttemptsBound, baseDelayMs : {1}, jitter : {FALSE},
     custom : BOOLEAN, credentials : {"static"}, checksum : {NoChecksum}]

TokenResponses ==
    [status : {200, 503}, code : {""}, date : {NoDateHeader},
     retryAfter : {NoRetryAfter}, etag : EtagHeaders,
     body : {<<"<UploadId>", "u", "</UploadId>">>}]
    \cup
    [status : {200, 503}, code : {""}, date : {NoDateHeader},
     retryAfter : {NoRetryAfter}, etag : {NoHeader}, body : InitiateBodies]

InitTokens ==
    InitWith(TokenConfigs, {"uploadPart", "initiateMultipart"}, {DefaultParams},
             {TRUE}, {0})

NextTokens ==
    \/ Call
    \/ Dispatch
    \/ Respond(TokenResponses, {0})
    \/ Fail({0})
    \/ TimerFires
    \/ DelayAborted
    \/ Abort

SpecTokens == InitTokens /\ [][NextTokens]_vars

\* the value has a double quote at both ends
Quoted(value) == value # << >> /\ value[1] = Quote /\ value[Len(value)] = Quote

\* the text of the first UploadId element of the body, << >> if it has none
UploadIdText(body) ==
    IF \E i, j \in 1..Len(body) :
          i < j /\ body[i] = "<UploadId>" /\ body[j] = "</UploadId>"
    THEN extractTag(body, "UploadId").value
    ELSE << >>

\* C26: uploadPart returns a non-empty etag, the ETag header without the
\* double quotes around it, and raises when the accepted response has no ETag
\* header or one that is empty once unquoted; initiateMultipart returns a
\* non-empty uploadId and raises when the accepted body has no UploadId
C26_NoEmptyToken ==
    /\ (op = "uploadPart" /\ lastResponse.status = 200) =>
          LET header == lastResponse.etag
              inner == IF Quoted(header.value)
                       THEN SubSeq(header.value, 2, Len(header.value) - 1)
                       ELSE header.value
          IN IF ~header.present \/ inner = << >>
             THEN pc = "raised" /\ result.error.kind = "result"
             ELSE pc = "returned" /\ result.etag = inner /\ result.etag # << >>
    /\ (op = "initiateMultipart" /\ lastResponse.status = 200) =>
          IF UploadIdText(lastResponse.body) = << >>
          THEN pc = "raised" /\ result.error.kind = "result"
          ELSE /\ pc = "returned"
               /\ result.uploadId # << >>
               /\ result.uploadId = UploadIdText(lastResponse.body)

\* uploadPart answered 200 with ETag "a" returned a
C26_Witness ==
    /\ op = "uploadPart"
    /\ pc = "returned"
    /\ lastResponse.etag.value = <<Quote, "a", Quote>>
    /\ result.etag = <<"a">>

-----------------------------------------------------------------------------
(* The clock-skew estimate of one client: every configured clockSkewMs of  *)
(* ConfiguredSkews, responses with and without a Date header, transport    *)
(* failures                                                                 *)

ConfiguredSkews ==
    {JsUndefined, JsNaN, JsInfinity(1), JsInfinity(0 - 1), JsInt(0), JsInt(250),
     JsInt(0 - 250)}

EstimateConfigs ==
    [maxAttempts : 1..MaxAttemptsBound, baseDelayMs : {0, 1}, jitter : {FALSE},
     custom : {FALSE}, credentials : {"static"}, checksum : {NoChecksum},
     clockSkewMs : ConfiguredSkews]

EstimateResponses ==
    [status : {200, 403, 503}, code : {""},
     date : {NoDateHeader, InvalidDate, 4, 9}, retryAfter : {NoRetryAfter}]

\* constructor, line 107: normalizeClockSkew(config.clockSkewMs ?? 0)
InitialClockSkew(configured) ==
    normalizeClockSkew(IF configured = JsUndefined THEN JsInt(0) ELSE configured)

InitEstimate ==
    /\ InitWith(EstimateConfigs, {"get"}, {DefaultParams}, {TRUE},
                {InitialClockSkew(configured) : configured \in ConfiguredSkews})
    /\ clockSkewMs = InitialClockSkew(cfg.clockSkewMs)

NextEstimate ==
    \/ Call
    \/ Dispatch
    \/ Respond(EstimateResponses, Elapses)
    \/ Fail(Elapses)
    \/ TimerFires
    \/ DelayAborted
    \/ Abort

SpecEstimate == InitEstimate /\ [][NextEstimate]_vars

\* before any response, the estimate is the configured number if that is
\* finite and 0 otherwise
EstimateStartsFinite ==
    lastResponse.seq = 0 =>
       clockSkewMs = IF cfg.clockSkewMs.k = "int" THEN cfg.clockSkewMs.v ELSE 0

\* a step in which a response is processed sets the estimate from its Date
\* header if that can be parsed and leaves it otherwise; no other step changes
\* the estimate
EstimateFollowsDate ==
    IF lastResponse'.seq = lastResponse.seq + 1
    THEN IF lastResponse'.date >= 0
         THEN clockSkewMs' = lastResponse'.date * MsPerSecond - now'
         ELSE clockSkewMs' = clockSkewMs
    ELSE clockSkewMs' = clockSkewMs

\* C27: a response with a Date header that can be parsed, accepted or not,
\* sets the clock-skew estimate to that date minus the local clock; a response
\* without such a header and a transport failure leave it as it was; the
\* estimate starts as the configured number, or 0 if that is not finite
C27_EstimateTracksDate ==
    []EstimateStartsFinite /\ [][EstimateFollowsDate]_vars

\* a client configured with clockSkewMs Infinity got a 503 with Date 9 and then
\* a response without Date: the estimate is still the one of the first
C27_Witness ==
    /\ cfg.clockSkewMs = JsInfinity(1)
    /\ attempt = 2
    /\ lastResponse.seq = 2
    /\ lastResponse.date = NoDateHeader
    /\ clockSkewMs # 0
    /\ \E at \in {StartTime, StartTime + 400} : clockSkewMs = 9 * MsPerSecond - at

-----------------------------------------------------------------------------
(* Termination: every public method under every retry configuration of     *)
(* RetryConfigs, and readErrorBody on every stream of Streams.  The        *)
(* transport eventually returns a response or fails, a pending timer       *)
(* eventually fires or the wait is rejected, a stream eventually delivers  *)
(* its next chunk or ends, and the code between two awaits runs.           *)

TerminationConfigs ==
    [maxAttempts : 1..MaxAttemptsBound, baseDelayMs : {0, 1}, jitter : {TRUE},
     custom : BOOLEAN, credentials : {"static"}, checksum : {NoChecksum}]

\* answers that end the call, answers that are retried after a wait, and
\* answers that correct the clock
TerminationResponses ==
    [status : {200, 204}, code : {""}, date : {NoDateHeader},
     retryAfter : {NoRetryAfter}]
    \cup [status : {503}, code : {"SlowDown"}, date : {NoDateHeader},
          retryAfter : {NoRetryAfter}]
    \cup [status : {403}, code : {"", "RequestTimeTooSkewed"},
          date : {StartTime \div MsPerSecond + 1000}, retryAfter : {NoRetryAfter}]

InitTermination ==
    \/ InitWith(TerminationConfigs, Ops, {DefaultParams}, {TRUE}, {0})
    \/ InitErrorBody

NextTermination ==
    \/ Call
    \/ Dispatch
    \/ Respond(TerminationResponses, {0})
    \/ Fail({0})
    \/ TimerFires
    \/ DelayAborted
    \/ Abort
    \/ ReadErrorBody
    \/ ReadChunk

\* the steps of NextTermination that leave the loop head are the Dispatch
\* steps: the code from the loop head to the call of the transport runs
LoopHeadRuns == pc = "sign" /\ pc' \in {"inflight", "raised"}

\* the steps of NextTermination that leave "inflight" are the Respond and Fail
\* steps: the transport returns a response or fails, and the code up to the
\* next await runs
TransportSettles == pc = "inflight" /\ pc' \in {"sign", "wait", "returned", "raised"}

\* Fairness on Dispatch and on Respond \/ Fail is stated on the program
\* counter, and the other conditions on the actions themselves.
SpecTermination ==
    /\ InitTermination
    /\ [][NextTermination]_vars
    /\ WF_vars(Call)
    /\ WF_pc(LoopHeadRuns)
    /\ WF_pc(TransportSettles)
    /\ WF_vars(TimerFires \/ DelayAborted)
    /\ WF_vars(ReadErrorBody)
    /\ WF_vars(ReadChunk)

-----------------------------------------------------------------------------
(* ETags from uploadPart to completeMultipart: uploadPart answered with    *)
(* every ETag header of EtagTexts, the etag it returns passed back as the  *)
(* one part of a completeMultipart call on the same client, and            *)
(* completeMultipart called with every etag of EtagTexts.                  *)

EtagTexts == StringsUpTo({Quote, "a", " "}, MaxEtagLen)

EtagConfigs ==
    [maxAttempts : {1}, baseDelayMs : {0}, jitter : {FALSE},
     custom : {FALSE}, credentials : {"static"}, checksum : {NoChecksum}]

EtagResponses ==
    [status : {200}, code : {""}, date : {NoDateHeader}, retryAfter : {NoRetryAfter},
     etag : {[present |-> TRUE, value |-> h] : h \in EtagTexts}]

InitEtag ==
    \/ InitWith(EtagConfigs, {"uploadPart"}, {DefaultParams}, {FALSE}, {0})
    \/ InitWith(EtagConfigs, {"completeMultipart"},
                {[DefaultParams EXCEPT !.parts = <<[partNumber |-> JsInt(1), etag |-> e]>>] :
                    e \in EtagTexts},
                {FALSE}, {0})

\* the caller passes the etag uploadPart returned to completeMultipart as the
\* etag of that part; lastResponse keeps the ETag header uploadPart read
CompleteWithReturnedEtag ==
    /\ pc = "returned"
    /\ op = "uploadPart"
    /\ op' = "completeMultipart"
    /\ params' = [params EXCEPT !.parts = <<[partNumber |-> params.partNumber,
                                             etag |-> result.etag]>>]
    /\ pc' = "ready"
    /\ ctx' = NoCtx
    /\ attempt' = 0
    /\ sent' = << >>
    /\ result' = NoResult
    /\ lastError' = NoError
    /\ decision' = NoDecision
    /\ UNCHANGED <<cfg, signal, delayMs, clockSkewMs, now, lastResponse, peer>>

NextEtag ==
    \/ Call
    \/ Dispatch
    \/ Respond(EtagResponses, {0})
    \/ Fail({0})
    \/ CompleteWithReturnedEtag

SpecEtag == InitEtag /\ [][NextEtag]_vars

\* enclosed in a pair of double quotes
Enclosed(s) == Len(s) >= 2 /\ s[1] = Quote /\ s[Len(s)] = Quote

\* completeMultipart has handed its body to the transport
BodyEmitted == op = "completeMultipart" /\ pc = "inflight"

\* the first call was uploadPart, and this one was given the etag it returned
PassedBack == BodyEmitted /\ lastResponse.seq = 1

EmittedEtag == sent[1].parts[1].etag

\* C29: the ETag element of the CompleteMultipartUpload body is enclosed in a
\* pair of double quotes, it is the supplied etag when that was enclosed in a
\* pair already and the supplied etag wrapped otherwise, and the etag
\* uploadPart returned for a quoted ETag header with non-empty content is
\* emitted as that header
C29_EtagQuotedOnce ==
    /\ BodyEmitted =>
          LET supplied == params.parts[1].etag
          IN /\ Enclosed(EmittedEtag)
             /\ Enclosed(supplied) => EmittedEtag = supplied
             /\ (~Enclosed(supplied) /\ Trim(supplied) = supplied) =>
                   EmittedEtag = <<Quote>> \o supplied \o <<Quote>>
    /\ (PassedBack /\ Enclosed(lastResponse.etag.value)
                   /\ Len(lastResponse.etag.value) > 2) =>
          EmittedEtag = lastResponse.etag.value

\* what holds: the emitted etag is the trimmed supplied one when that starts
\* and ends with a double quote, a lone double quote included, and the
\* trimmed one wrapped otherwise; a hexadecimal ETag goes round unchanged
C29_EtagAsEnsured ==
    /\ BodyEmitted =>
          LET trimmed == Trim(params.parts[1].etag)
          IN EmittedEtag = IF trimmed[1] = Quote /\ trimmed[Len(trimmed)] = Quote
                           THEN trimmed
                           ELSE <<Quote>> \o trimmed \o <<Quote>>
    /\ (PassedBack /\ Enclosed(lastResponse.etag.value)
                   /\ \A i \in 2..(Len(lastResponse.etag.value) - 1) :
                         lastResponse.etag.value[i] = "a"
                   /\ Len(lastResponse.etag.value) > 2) =>
          EmittedEtag = lastResponse.etag.value

\* the ETag header was three double quotes, uploadPart returned one, and
\* completeMultipart emitted it as it was
C29_LoneQuoteEmitted ==
    /\ PassedBack
    /\ lastResponse.etag.value = <<Quote, Quote, Quote>>
    /\ params.parts[1].etag = <<Quote>>
    /\ EmittedEtag = <<Quote>>

\* a quoted hexadecimal ETag header came back as it was
C29_HexEtagRoundTrip ==
    /\ PassedBack
    /\ lastResponse.etag.value = <<Quote, "a", "a", Quote>>
    /\ EmittedEtag = <<Quote, "a", "a", Quote>>

-----------------------------------------------------------------------------
(* XML text: decodeXml of escapeXml of every text of XmlTexts, and         *)
(* extractTag of a <Key> / <Message> element whose text is escapeXml of it *)

XmlChars == {"&", "l", "t", ";", "<", "'"}

XmlTexts == StringsUpTo(XmlChars, MaxXmlLen)

DecodeXml ==
    /\ pc = "ready"
    /\ op = "decodeXml"
    /\ FunctionReturns(decodeXml(escapeXml(params)))

\* the element as a server that escapes its text writes it
ElementOf(tag, text) == <<"<" \o tag \o ">">> \o escapeXml(text) \o <<"</" \o tag \o ">">>

ExtractTag ==
    /\ pc = "ready"
    /\ op = "extractTag"
    /\ \E tag \in {"Key", "Message"} :
          LET extracted == extractTag(ElementOf(tag, params), tag)
          IN IF extracted.found THEN FunctionReturns(extracted.value)
             ELSE FunctionThrows("undefined")

InitXml ==
    \/ InitFunction("decodeXml", XmlTexts)
    \/ InitFunction("extractTag", XmlTexts)

NextXml == DecodeXml \/ ExtractTag

SpecXml == InitXml /\ [][NextXml]_vars

\* C30: decodeXml undoes escapeXml, and a key or message is extracted from
\* its escaped element as the text it was
C30_DecodeUndoesEscape ==
    (op \in {"decodeXml", "extractTag"} /\ pc # "ready") =>
       (pc = "returned" /\ result = params)

\* what holds: a text in which no '&' is followed by the rest of an entity
\* name comes back as it was
C30_PlainTextDecoded ==
    (op \in {"decodeXml", "extractTag"} /\ pc # "ready"
        /\ \A i \in 1..Len(params) :
              params[i] = "&" => (i = Len(params) \/ params[i + 1] \in {"&", "<", "'", ";"})) =>
       (pc = "returned" /\ result = params)

\* the key "&lt;" was extracted from <Key>&amp;lt;</Key> as "<"
C30_EntityDecodedTwice ==
    /\ op = "extractTag"
    /\ params = <<"&", "l", "t", ";">>
    /\ pc = "returned"
    /\ result = <<"<">>

====
